---- MODULE Spec2Model ----
(***************************************************************************)
(* Memory hydration, tool-approval graph and response streaming of the     *)
(* chat agent: lib/agent/memory.ts (hydrator), lib/agent/index.ts          *)
(* (createAgent), services/agentService.ts (streamResponse,                *)
(* processAIMessage) and the AgentBuilder graph described in the           *)
(* architecture document.                                                  *)
(***************************************************************************)
EXTENDS Integers, Sequences, FiniteSets, TLC

VARIABLES
  hpc,        \* hydrator harness: "start" -> "hydrated" -> "read"
  threadId,   \* thread id of the call under way
  history,    \* MessageResponse[] supplied by the client
  saver,      \* MemorySaver: thread id -> sequence of checkpoints put so far
  readBack,   \* result of getHistory
  pc,         \* request position: "idle", "called", "streaming", "closing"
  opts,       \* MessageOptions of the request: allowTool, approveAllTools
  userText,   \* text of the request
  inputs,     \* turn input handed to agent.stream
  node,       \* graph position: next node to run, or how the run ended
  messages,   \* the graph's shared messages state
  resume,     \* resume value available to interrupt(), or Undefined
  emitted,    \* update chunks the graph has put on the stream, in order
  taken,      \* number of chunks the generator has consumed
  deltas,     \* MessageResponse values yielded by the generator
  gen,        \* generator: "none", "open", "returned", "threw"
  toolRuns,   \* tool calls executed by the tools node in this turn
  interrupts, \* interrupt descriptions emitted in this turn
  steps,      \* supersteps run in this turn
  aiCount,    \* model calls made so far (source of message ids)
  clientMsgs, \* the client's message list of the thread
  turns,      \* requests completed
  wire,       \* server-sent events enqueued on the response, in order
  closed,     \* the response stream has been closed by the route
  current,    \* the client's in-flight message (currentMessageRef)
  isSending,  \* the client's isSending flag
  streamOpen, \* the client's EventSource is open
  stored,     \* localStorage: thread id -> persisted message list
  received,   \* number of events of the response the client has handled
  hydrateLog, \* what hydrateMemoryFromHistory logged in this request
  stores,     \* MemorySaver instances the server process has created
  reqs,       \* requests in flight on the server: request -> its state
  file,       \* file handed to validateFile
  verdict,    \* result of validateFile
  bucket,     \* the object store: objects put so far
  response,   \* the upload endpoint's HTTP response
  putCalls,   \* calls of uploadFile / uploadLargeFile made by the request
  configFile, \* mcp-config.json as found on disk, and the cfg.tools of the call
  mcpOut,     \* what the tool registry returned to createAgent
  ls,         \* the browser's localStorage
  activeId,   \* ThreadProvider's activeThreadId state
  clock,      \* source of new Date() values
  lastRead,   \* result of the last read of localStorage
  minted      \* thread ids uuidv4 has returned so far

hydratorVars == <<hpc, readBack>>
requestVars == <<threadId, history, saver, opts, userText, inputs>>
graphVars == <<node, messages, resume, toolRuns, interrupts, steps, aiCount>>
streamVars == <<emitted, taken, deltas, gen>>
clientVars == <<clientMsgs, turns>>
routeVars == <<wire, closed>>
chatVars == <<current, isSending, streamOpen, stored, received>>
agentVars == <<hydrateLog>>
serverVars == <<stores, reqs>>
uploadVars == <<file, verdict>>
endpointVars == <<bucket, response, putCalls>>
mcpVars == <<configFile, mcpOut>>
storageVars == <<ls, activeId, clock, lastRead, minted>>

vars == <<hpc, readBack, pc, threadId, history, saver, opts, userText, inputs,
          node, messages, resume, emitted, taken, deltas, gen, toolRuns,
          interrupts, steps, aiCount, clientMsgs, turns, wire, closed, current,
          isSending, streamOpen, stored, received, hydrateLog, stores, reqs, file, verdict,
          bucket, response, putCalls, configFile, mcpOut, ls, activeId, clock, lastRead,
          minted>>

(***************************************************************************)
(* Bounds                                                                  *)
(***************************************************************************)
MaxHist == 2
MaxTurns == 2
MaxChunks == 2
\* stands for the graph runtime's superstep limit of a single stream call
RecursionLimit == 4
\* threads a user creates in one run
MaxThreads == 2
\* calls of new Date() in one run
MaxClock == 2

(***************************************************************************)
(* Strings are sequences of characters; "undefined" stands for a missing   *)
(* JavaScript value.                                                       *)
(***************************************************************************)
Undefined == "undefined"

\* ids are pairs <<kind, serial>>; NoId is a missing id
NoId == <<"undefined", 0>>

ThreadIds == {"T1", "T2"}

\* sample texts
A == <<"a">>
B == <<"b", " ">>

RECURSIVE Concat(_)
Concat(ss) == IF ss = <<>> THEN <<>> ELSE Head(ss) \o Concat(Tail(ss))

RECURSIVE JoinWith(_, _)
JoinWith(ss, sep) ==
  IF ss = <<>> THEN <<>>
  ELSE IF Len(ss) = 1 THEN Head(ss)
  ELSE Head(ss) \o sep \o JoinWith(Tail(ss), sep)

MapSeq(f(_), s) == [i \in 1..Len(s) |-> f(s[i])]

SeqsUpTo(S, n) == UNION {[1..k -> S] : k \in 0..n}

(***************************************************************************)
(* Message content: a plain string, or a list of content items (text       *)
(* blocks, images, provider function-call parts, bare strings).            *)
(***************************************************************************)
Str(t) == [kind |-> "str", text |-> t, items |-> <<>>]
List(its) == [kind |-> "list", text |-> <<>>, items |-> its]
NoContent == [kind |-> "undefined", text |-> <<>>, items |-> <<>>]

TextItem(t) == [kind |-> "text", text |-> t]
StringItem(t) == [kind |-> "string", text |-> t]
ImageItem == [kind |-> "image_url", text |-> <<>>]
FunctionCallItem == [kind |-> "functionCall", text |-> <<>>]

\* JSON.stringify of one content item
ItemJson(it) ==
  CASE it.kind = "text" -> <<"{", "type:text", ",", "text:", "'">> \o it.text \o <<"'", "}">>
    [] it.kind = "string" -> <<"'">> \o it.text \o <<"'">>
    [] it.kind = "image_url" -> <<"{", "type:image_url", ",", "image_url:{url}", "}">>
    [] OTHER -> <<"{", "functionCall:{}", "}">>

\* JSON.stringify of a content value that is not a string
Stringify(content) ==
  IF content.kind = "list"
  THEN <<"[">> \o JoinWith(MapSeq(ItemJson, content.items), <<",">>) \o <<"]">>
  ELSE <<>>

normalizeContentDropsStructure(content) ==
  IF content.kind = "str" THEN content ELSE Str(<<>>)

normalizeContent(content) ==
  IF content.kind = "str" THEN content ELSE Str(Stringify(content))

(***************************************************************************)
(* Tool calls, client messages (MessageResponse) and LangChain messages    *)
(***************************************************************************)
ToolCall(id, name, args) == [id |-> id, name |-> name, args |-> args]

TC1 == ToolCall(<<"tc", 1>>, "search", "q")
TC2 == ToolCall(<<"tc", 2>>, "fetch", "u")

\* a MessageResponse {type, data: {id, content, tool_calls?, additional_kwargs?, response_metadata?}}
Msg(type, id, content, tcs, kw, meta) ==
  [type |-> type, ok |-> TRUE, id |-> id, content |-> content, tool_calls |-> tcs,
   additional_kwargs |-> kw, response_metadata |-> meta]

\* a history item without a data object
MalformedItem ==
  [type |-> "human", ok |-> FALSE, id |-> NoId, content |-> NoContent,
   tool_calls |-> <<>>, additional_kwargs |-> Undefined, response_metadata |-> Undefined]

\* a LangChain BaseMessage; cls is the constructor name
Base(cls, id, content, tcs, kw, meta, tcid) ==
  [cls |-> cls, id |-> id, content |-> content, tool_calls |-> tcs,
   additional_kwargs |-> kw, response_metadata |-> meta, tool_call_id |-> tcid]

HumanMessage(content, id) == Base("HumanMessage", id, content, <<>>, Undefined, Undefined, NoId)
ToolMessage(content, tcid) == Base("ToolMessage", NoId, content, <<>>, Undefined, Undefined, tcid)
AIMessage(content, id, tcs, kw, meta) == Base("AIMessage", id, content, tcs, kw, meta, NoId)

RoleOf(m) ==
  CASE m.cls = "HumanMessage" -> "human"
    [] m.cls \in {"AIMessage", "AIMessageChunk"} -> "ai"
    [] OTHER -> "tool"

messageResponseToBaseMessageDropsToolCalls(msg) ==
  IF msg.type = "human" THEN HumanMessage(normalizeContent(msg.content), msg.id)
  ELSE IF msg.type = "ai"
    THEN AIMessage(normalizeContent(msg.content), msg.id, <<>>, Undefined, Undefined)
  ELSE IF msg.type = "tool" THEN ToolMessage(normalizeContent(msg.content), msg.id)
  ELSE HumanMessage(normalizeContent(msg.content), msg.id)

messageResponseToBaseMessage(msg) ==
  IF msg.type = "human" THEN HumanMessage(normalizeContent(msg.content), msg.id)
  ELSE IF msg.type = "ai"
    THEN AIMessage(normalizeContent(msg.content), msg.id, msg.tool_calls,
                   msg.additional_kwargs, msg.response_metadata)
  ELSE IF msg.type = "tool" THEN ToolMessage(normalizeContent(msg.content), msg.id)
  ELSE HumanMessage(normalizeContent(msg.content), msg.id)

(***************************************************************************)
(* MemorySaver and the hydrator                                            *)
(***************************************************************************)
createMemorySaver == [t \in ThreadIds |-> <<>>]

Checkpoint(msgs) ==
  [v |-> 1, channel_values |-> [messages |-> msgs],
   channel_versions |-> [messages |-> Len(msgs)], versions_seen |-> <<>>]

SaverPut(s, t, checkpoint) == [s EXCEPT ![t] = Append(@, checkpoint)]

\* history.map(messageResponseToBaseMessage) throws on an item without data
MapThrows(h) == \E i \in 1..Len(h) : ~h[i].ok

hydrateMemoryFromHistorySkipsUnknown(s, t, h) ==
  IF Len(h) = 0 THEN s
  ELSE IF MapThrows(h) THEN s
  ELSE SaverPut(s, t, Checkpoint(MapSeq(messageResponseToBaseMessage,
         SelectSeq(h, LAMBDA m : m.type \in {"human", "ai", "tool"}))))

hydrateMemoryFromHistory(s, t, h) ==
  IF Len(h) = 0 THEN s
  ELSE IF MapThrows(h) THEN s
  ELSE SaverPut(s, t, Checkpoint(MapSeq(messageResponseToBaseMessage, h)))

getHistory(s, t) ==
  IF s[t] = <<>> THEN <<>> ELSE s[t][Len(s[t])].channel_values.messages

(***************************************************************************)
(* streamResponse: the turn input and the conversion of assistant          *)
(* messages to deltas                                                      *)
(***************************************************************************)
Opts(allowTool, approveAllTools) ==
  [allowTool |-> allowTool, approveAllTools |-> approveAllTools]
NoOpts == Opts(Undefined, FALSE)

NoResume == [action |-> "none", data |-> Undefined]
EmptyData == "{}"

NoInputs == [kind |-> "none", resume |-> NoResume, messages |-> <<>>]
Command(res) == [kind |-> "command", resume |-> res, messages |-> <<>>]
StateInput(msgs) == [kind |-> "state", resume |-> NoResume, messages |-> msgs]

StreamInputsDenyAsContinue(o, text) ==
  IF o.allowTool # Undefined
  THEN Command([action |-> "continue", data |-> EmptyData])
  ELSE StateInput(<<HumanMessage(Str(text), NoId)>>)

\* const inputs = opts?.allowTool ? new Command({resume: ...}) : {messages: [...]}
StreamInputs(o, text) ==
  IF o.allowTool # Undefined
  THEN Command([action |-> IF o.allowTool = "allow" THEN "continue" ELSE "update",
                data |-> EmptyData])
  ELSE StateInput(<<HumanMessage(Str(text), NoId)>>)

Whitespace == {" ", "\n"}

\* text.trim() is a non-empty string
TrimIsNonEmpty(text) == \E i \in 1..Len(text) : text[i] \notin Whitespace

\* the text of one element of an array content: a string, or c?.text || ""
ItemText(it) == IF it.kind \in {"string", "text"} THEN it.text ELSE <<>>

\* the text of a content value, as processAIMessage extracts it
ExtractText(content) ==
  IF content.kind = "str" THEN content.text
  ELSE IF content.kind = "list" THEN Concat(MapSeq(ItemText, content.items))
  ELSE <<>>

hasToolCall(message) ==
  /\ message.content.kind = "list"
  /\ \E i \in 1..Len(message.content.items) :
       message.content.items[i].kind = "functionCall"

\* Date.now().toString(), the id of a delta whose message has none
DateNow == <<"ts", 0>>

DeltaId(message) == IF message.id # NoId THEN message.id ELSE DateNow

processAIMessageKeepsBlank(message) ==
  IF hasToolCall(message)
  THEN <<Msg("ai", DeltaId(message), Str(<<>>), message.tool_calls,
             message.additional_kwargs, message.response_metadata)>>
  ELSE <<Msg("ai", DeltaId(message), Str(ExtractText(message.content)), <<>>,
             Undefined, Undefined)>>

processAIMessageDropsToolCalls(message) ==
  IF TrimIsNonEmpty(ExtractText(message.content))
  THEN <<Msg("ai", DeltaId(message), Str(ExtractText(message.content)), <<>>,
             Undefined, Undefined)>>
  ELSE <<>>

\* the delta of an assistant message: <<delta>>, or <<>> for null
processAIMessage(message) ==
  IF hasToolCall(message)
  THEN <<Msg("ai", DeltaId(message),
             IF message.content.kind = "str" THEN message.content ELSE Str(<<>>),
             message.tool_calls, message.additional_kwargs, message.response_metadata)>>
  ELSE IF TrimIsNonEmpty(ExtractText(message.content))
  THEN <<Msg("ai", DeltaId(message), Str(ExtractText(message.content)), <<>>,
             Undefined, Undefined)>>
  ELSE <<>>

isAIMessage(message) == message.cls \in {"AIMessageChunk", "AIMessage"}

\* an update chunk ["updates", {<node>: {messages}}]
Chunk(n, msgs) == [type |-> "updates", node |-> n, messages |-> msgs]

RECURSIVE YieldsOfMessages(_)
YieldsOfMessages(msgs) ==
  IF msgs = <<>> THEN <<>>
  ELSE (IF isAIMessage(Head(msgs)) THEN processAIMessage(Head(msgs)) ELSE <<>>)
       \o YieldsOfMessages(Tail(msgs))

YieldsOfChunkAnyNode(chunk) ==
  IF chunk.type = "updates" THEN YieldsOfMessages(chunk.messages) ELSE <<>>

YieldPrepends(ds, ys) == ys \o ds

\* the deltas yielded so far, after one more iteration yields ys
Yield(ds, ys) == ds \o ys

IterableDoneAtEndOnly(n) == n = "END"

\* the graph's stream ends without raising: the run finished or was interrupted
IterableDone(n) == n \in {"END", "interrupted"}

\* what one iteration of the generator's for-await loop yields for a chunk
YieldsOfChunk(chunk) ==
  IF chunk.type = "updates" /\ chunk.node = "agent"
  THEN YieldsOfMessages(chunk.messages)
  ELSE <<>>

(***************************************************************************)
(* The AgentBuilder graph: agent -> tool_approval -> tools -> agent        *)
(***************************************************************************)
Last(s) == s[Len(s)]

HasToolCalls(m) == isAIMessage(m) /\ m.tool_calls # <<>>

\* the messages reducer of MessagesAnnotation: a message whose id is already
\* in the list replaces that entry, any other message is appended
RECURSIVE AddMessages(_, _)
AddMessages(left, right) ==
  IF right = <<>> THEN left
  ELSE LET m == Head(right)
           hit == {i \in 1..Len(left) : m.id # NoId /\ left[i].id = m.id}
       IN  IF hit = {}
           THEN AddMessages(Append(left, m), Tail(right))
           ELSE LET i == CHOOSE j \in hit : \A k \in hit : j <= k
                IN  AddMessages([left EXCEPT ![i] = m], Tail(right))

\* what the model may answer: text, or a tool call in either provider's shape
ModelOutputs(id) ==
  { AIMessage(Str(A), id, <<>>, Undefined, Undefined),
    AIMessage(Str(<<" ">>), id, <<>>, Undefined, Undefined),
    AIMessage(List(<<TextItem(A), StringItem(B)>>), id, <<>>, Undefined, Undefined),
    AIMessage(List(<<FunctionCallItem>>), id, <<TC1>>, "kw", "meta"),
    AIMessage(Str(<<>>), id, <<TC1>>, "kw", "meta") }

shouldApproveToolChecksFlag(msgs, approveAll) ==
  IF msgs # <<>> /\ HasToolCalls(Last(msgs))
  THEN (IF approveAll THEN "tools" ELSE "tool_approval")
  ELSE "END"

\* the conditional edge leaving agent
shouldApproveTool(msgs, approveAll) ==
  IF msgs # <<>> /\ HasToolCalls(Last(msgs)) THEN "tool_approval" ELSE "END"

Goto(n, update) == [kind |-> "goto", goto |-> n, update |-> update, toolCall |-> TC1]
Interrupt(tc) == [kind |-> "interrupt", goto |-> "none", update |-> <<>>, toolCall |-> tc]
Throw == [kind |-> "throw", goto |-> "none", update |-> <<>>, toolCall |-> TC1]

\* the tool call under review: the last one of the last message
PendingToolCall(msgs) == Last(Last(msgs).tool_calls)

\* the assistant message with the reviewed call's arguments replaced
updatedMessage(msgs, data) ==
  LET tc == PendingToolCall(msgs)
  IN  AIMessage(Str(<<>>), Last(msgs).id, <<ToolCall(tc.id, tc.name, data)>>,
                Undefined, Undefined)

\* the synthetic tool result carrying the reviewer's feedback
toolMessage(msgs, data) == ToolMessage(Str(<<data>>), PendingToolCall(msgs).id)

approveToolCallRunsOnFeedback(msgs, approveAll, res) ==
  IF approveAll THEN Goto("tools", <<>>)
  ELSE IF msgs = <<>> \/ ~HasToolCalls(Last(msgs)) THEN Throw
  ELSE IF res = NoResume THEN Interrupt(PendingToolCall(msgs))
  ELSE IF res.action = "continue" THEN Goto("tools", <<>>)
  ELSE IF res.action = "update" THEN Goto("tools", <<updatedMessage(msgs, res.data)>>)
  ELSE Goto("tools", <<toolMessage(msgs, res.data)>>)

approveToolCallNeverInterrupts(msgs, approveAll, res) ==
  IF approveAll \/ res = NoResume THEN Goto("tools", <<>>)
  ELSE IF msgs = <<>> \/ ~HasToolCalls(Last(msgs)) THEN Throw
  ELSE IF res.action = "continue" THEN Goto("tools", <<>>)
  ELSE IF res.action = "update" THEN Goto("tools", <<updatedMessage(msgs, res.data)>>)
  ELSE Goto("agent", <<toolMessage(msgs, res.data)>>)

\* the tool_approval node: interrupt(), then the switch on humanReview.action
approveToolCall(msgs, approveAll, res) ==
  IF approveAll THEN Goto("tools", <<>>)
  ELSE IF msgs = <<>> \/ ~HasToolCalls(Last(msgs)) THEN Throw
  ELSE IF res = NoResume THEN Interrupt(PendingToolCall(msgs))
  ELSE IF res.action = "continue" THEN Goto("tools", <<>>)
  ELSE IF res.action = "update" THEN Goto("tools", <<updatedMessage(msgs, res.data)>>)
  ELSE Goto("agent", <<toolMessage(msgs, res.data)>>)

\* the tools node: one tool message per call of the last assistant message
ToolResults(msgs) ==
  MapSeq(LAMBDA tc : ToolMessage(Str(<<"ok">>), tc.id), Last(msgs).tool_calls)

Runnable == {"agent", "tool_approval", "tools"}
Ended == {"END", "interrupted", "error"}

(***************************************************************************)
(* The stream route: POST /api/agent/stream turns the generator's deltas   *)
(* into server-sent events                                                 *)
(***************************************************************************)
\* currentMessageRef.current = null
NoCurrent == Msg("none", NoId, Str(<<>>), <<>>, Undefined, Undefined)

\* one event of the response: its name, the delta of a data event, the
\* message of an error event
SseEvent(e, d, m) == [event |-> e, data |-> d, message |-> m]
DataEvent(delta) == SseEvent("message", delta, NoContent)
DoneEvent == SseEvent("done", NoCurrent, NoContent)
ErrorEvent(m) == SseEvent("error", NoCurrent, Str(m))

\* error.message of whatever the graph raised
ErrorText == <<"e">>

RouteErrorThenDone(w, m) == w \o <<ErrorEvent(m), DoneEvent>>

\* controller.enqueue(`data: ${JSON.stringify(messageResponse)}\n\n`)
RouteEnqueue(w, ds) == w \o MapSeq(DataEvent, ds)

\* controller.enqueue(`event: done\ndata: {}\n\n`)
RouteDone(w) == Append(w, DoneEvent)

\* catch: controller.enqueue(`event: error\ndata: {message}\n\n`)
RouteError(w, m) == Append(w, ErrorEvent(m))

(***************************************************************************)
(* Components at rest                                                      *)
(***************************************************************************)
NoFile == [type |-> "none", name |-> <<>>, size |-> 0]
NoVerdict == [field |-> "pending"]

RouteIdle == wire = <<>> /\ closed = FALSE

ChatIdle ==
  /\ current = NoCurrent
  /\ isSending = FALSE
  /\ streamOpen = FALSE
  /\ stored = [t \in ThreadIds |-> <<>>]
  /\ received = 0

AgentIdle == hydrateLog = <<>>

ServerIdle == stores = <<>> /\ reqs = <<>>

UploadIdle == file = NoFile /\ verdict = NoVerdict

\* no response sent yet
NoResponse ==
  [status |-> 0, field |-> "none", success |-> FALSE, key |-> <<>>, name |-> <<>>,
   type |-> "none", size |-> 0]

EndpointIdle == bucket = <<>> /\ response = NoResponse /\ putCalls = 0

NoConfig == [shape |-> "none", servers |-> <<>>, cfgTools |-> <<>>]
NoMcpOut ==
  [configs |-> <<>>, tools |-> <<>>, agentTools |-> <<>>, threw |-> FALSE,
   built |-> FALSE, failure |-> "none"]

McpIdle == configFile = NoConfig /\ mcpOut = NoMcpOut

\* a localStorage key: absent, holding text JSON.parse rejects, or holding a list
Absent == [state |-> "absent", list |-> <<>>]
Corrupt == [state |-> "corrupt", list |-> <<>>]
Item(list) == [state |-> "ok", list |-> list]

\* thread ids are numbered in the order uuidv4 returns them; 0 is null
ThreadIdsOfStore == 1..MaxThreads
Null == 0

EmptyStorage == [threads |-> Absent, msgs |-> [t \in ThreadIdsOfStore |-> Absent], active |-> Null]
NoRead == [op |-> "none", list |-> <<>>, id |-> Null, raised |-> FALSE]

StorageIdle ==
  /\ ls = EmptyStorage /\ activeId = Null /\ clock = 0 /\ lastRead = NoRead /\ minted = {}

\* the chat agent's variables at rest
AgentOff ==
  /\ hpc = "off"
  /\ readBack = <<>>
  /\ pc = "off"
  /\ threadId = "T1"
  /\ history = <<>>
  /\ saver = createMemorySaver
  /\ opts = NoOpts
  /\ userText = <<>>
  /\ inputs = NoInputs
  /\ node = "none"
  /\ messages = <<>>
  /\ resume = NoResume
  /\ emitted = <<>>
  /\ taken = 0
  /\ deltas = <<>>
  /\ gen = "none"
  /\ toolRuns = <<>>
  /\ interrupts = <<>>
  /\ steps = 0
  /\ aiCount = 0
  /\ clientMsgs = <<>>
  /\ turns = 0
  /\ RouteIdle /\ ChatIdle /\ AgentIdle /\ ServerIdle

\* every variable outside the upload endpoint, the tool registry and localStorage
AgentFrame ==
  UNCHANGED <<hydratorVars, pc, requestVars, graphVars, streamVars, clientVars,
              routeVars, chatVars, agentVars, serverVars>>

(***************************************************************************)
(* Hydrator harness: hydrate a fresh saver from a client history, then     *)
(* read it back.                                                           *)
(***************************************************************************)
ItemPool ==
  { Msg("human", <<"h", 1>>, Str(A), <<>>, Undefined, Undefined),
    Msg("human", <<"h", 2>>, List(<<TextItem(A), ImageItem>>), <<>>, Undefined, Undefined),
    Msg("ai", <<"a", 1>>, Str(B), <<>>, Undefined, Undefined),
    Msg("ai", <<"a", 2>>, Str(<<>>), <<TC1, TC2>>, "kw", "meta"),
    Msg("tool", <<"tc", 1>>, Str(A), <<>>, Undefined, Undefined),
    Msg("tool", <<"tc", 2>>, List(<<TextItem(B)>>), <<>>, Undefined, Undefined),
    Msg("error", <<"e", 1>>, Str(A), <<>>, Undefined, Undefined),
    MalformedItem }

Histories == SeqsUpTo(ItemPool, MaxHist)

InitHydrate ==
  /\ hpc = "start"
  /\ threadId \in ThreadIds
  /\ history \in Histories
  /\ saver = createMemorySaver
  /\ readBack = <<>>
  /\ pc = "off"
  /\ opts = NoOpts
  /\ userText = <<>>
  /\ inputs = NoInputs
  /\ node = "none"
  /\ messages = <<>>
  /\ resume = NoResume
  /\ emitted = <<>>
  /\ taken = 0
  /\ deltas = <<>>
  /\ gen = "none"
  /\ toolRuns = <<>>
  /\ interrupts = <<>>
  /\ steps = 0
  /\ aiCount = 0
  /\ clientMsgs = <<>>
  /\ turns = 0
  /\ RouteIdle /\ ChatIdle /\ AgentIdle /\ ServerIdle /\ UploadIdle
  /\ EndpointIdle /\ McpIdle /\ StorageIdle

Hydrate ==
  /\ hpc = "start"
  /\ saver' = hydrateMemoryFromHistory(saver, threadId, history)
  /\ hpc' = "hydrated"
  /\ UNCHANGED <<threadId, history, readBack, pc, opts, userText, inputs>>
  /\ UNCHANGED <<graphVars, streamVars, clientVars>>
  /\ UNCHANGED <<routeVars, chatVars, agentVars, serverVars, uploadVars, endpointVars, mcpVars, storageVars>>

GetHistory ==
  /\ hpc = "hydrated"
  /\ \E t \in ThreadIds :
       /\ readBack' = [thread |-> t, messages |-> getHistory(saver, t)]
  /\ hpc' = "read"
  /\ UNCHANGED <<requestVars, pc, graphVars, streamVars, clientVars>>
  /\ UNCHANGED <<routeVars, chatVars, agentVars, serverVars, uploadVars, endpointVars, mcpVars, storageVars>>

NextHydrate == Hydrate \/ GetHistory

SpecHydrate == InitHydrate /\ [][NextHydrate]_vars

(***************************************************************************)
(* The client's reconciliation of streamed deltas (useChatThread)          *)
(***************************************************************************)

OnMessageAlwaysAppends(st, delta) ==
  [list |-> Append(st.list, delta), current |-> delta]

\* stream.onmessage: state is [list, current]
OnMessage(st, delta) ==
  IF st.current = NoCurrent \/ st.current.id # delta.id
  THEN [list |-> Append(st.list, delta), current |-> delta]
  ELSE LET merged == [st.current EXCEPT
                        !.content = Str(st.current.content.text \o delta.content.text)]
           hit == {i \in 1..Len(st.list) : st.list[i].id = merged.id}
       IN  [list |-> IF hit = {} THEN st.list
                     ELSE [st.list EXCEPT ![CHOOSE j \in hit : \A k \in hit : j <= k] = merged],
            current |-> merged]

RECURSIVE Reconcile(_, _)
Reconcile(st, ds) ==
  IF ds = <<>> THEN st ELSE Reconcile(OnMessage(st, Head(ds)), Tail(ds))

saveMessagesAppends(store, t, list) == [store EXCEPT ![t] = @ \o list]

\* saveMessages: localStorage.setItem(prefix + threadId, JSON.stringify(messages))
saveMessages(store, t, list) == [store EXCEPT ![t] = list]

\* the error listener's synthetic message
ErrorMessage(n) == Msg("error", <<"err", n>>, Str(<<"!", "e">>), <<>>, Undefined, Undefined)

OnErrorKeepsTracker(st, n) == [list |-> Append(st.list, ErrorMessage(n)), current |-> st.current]

\* the error listener: the error message is appended, the tracker cleared
OnError(st, n) == [list |-> Append(st.list, ErrorMessage(n)), current |-> NoCurrent]

\* the done listener: the tracker is cleared
OnDone(st) == [list |-> st.list, current |-> NoCurrent]

\* the listener that an event of the response reaches
HandleEvent(st, ev, n) ==
  IF ev.event = "message" THEN OnMessage(st, ev.data)
  ELSE IF ev.event = "done" THEN OnDone(st)
  ELSE OnError(st, n)

RECURSIVE HandleAll(_, _, _)
HandleAll(st, evs, n) ==
  IF evs = <<>> THEN st ELSE HandleAll(HandleEvent(st, Head(evs), n), Tail(evs), n)

\* the approval prompt is shown for a trailing assistant message with tool calls
PendingApproval(list) ==
  /\ list # <<>>
  /\ Last(list).type = "ai"
  /\ Last(list).tool_calls # <<>>

(***************************************************************************)
(* One request after another on one thread: the client sends a message or  *)
(* an approval decision, the server runs streamResponse, the graph and     *)
(* the generator run, the client reconciles.                               *)
(***************************************************************************)
Init ==
  /\ hpc = "off"
  /\ readBack = <<>>
  /\ pc = "idle"
  /\ threadId = "T1"
  /\ history = <<>>
  /\ saver = createMemorySaver
  /\ opts = NoOpts
  /\ userText = <<>>
  /\ inputs = NoInputs
  /\ node = "none"
  /\ messages = <<>>
  /\ resume = NoResume
  /\ emitted = <<>>
  /\ taken = 0
  /\ deltas = <<>>
  /\ gen = "none"
  /\ toolRuns = <<>>
  /\ interrupts = <<>>
  /\ steps = 0
  /\ aiCount = 0
  /\ clientMsgs = <<>>
  /\ turns = 0
  /\ RouteIdle /\ ChatIdle /\ AgentIdle /\ ServerIdle /\ UploadIdle
  /\ EndpointIdle /\ McpIdle /\ StorageIdle

ResetTurn ==
  /\ inputs' = NoInputs
  /\ node' = "none"
  /\ messages' = <<>>
  /\ resume' = NoResume
  /\ emitted' = <<>>
  /\ taken' = 0
  /\ deltas' = <<>>
  /\ gen' = "none"
  /\ toolRuns' = <<>>
  /\ interrupts' = <<>>
  /\ steps' = 0
  /\ wire' = <<>>
  /\ closed' = FALSE
  /\ hydrateLog' = <<>>

\* sendMessage: optimistic human message, request with the stored history
SendMessage ==
  /\ pc = "idle"
  /\ turns < MaxTurns
  /\ \E approve \in BOOLEAN : opts' = Opts(Undefined, approve)
  /\ userText' = A
  /\ history' = clientMsgs
  /\ clientMsgs' = Append(clientMsgs,
                          Msg("human", <<"u", turns + 1>>, Str(A), <<>>, Undefined, Undefined))
  /\ pc' = "called"
  /\ isSending' = TRUE
  /\ streamOpen' = TRUE
  /\ received' = 0
  /\ stored' = saveMessages(stored, threadId, clientMsgs')
  /\ ResetTurn
  /\ UNCHANGED <<hydratorVars, threadId, saver, aiCount, turns>>
  /\ UNCHANGED <<current, serverVars, uploadVars, endpointVars, mcpVars, storageVars>>

\* approveToolExecution: request with the decision and empty text
ApproveToolExecution ==
  /\ pc = "idle"
  /\ turns < MaxTurns
  /\ PendingApproval(clientMsgs)
  /\ \E decision \in {"allow", "deny"}, approve \in BOOLEAN :
       opts' = Opts(decision, approve)
  /\ userText' = <<>>
  /\ history' = clientMsgs
  /\ pc' = "called"
  /\ isSending' = TRUE
  /\ streamOpen' = TRUE
  /\ received' = 0
  /\ ResetTurn
  /\ UNCHANGED <<hydratorVars, threadId, saver, aiCount, clientMsgs, turns>>
  /\ UNCHANGED <<current, stored, serverVars, uploadVars, endpointVars, mcpVars, storageVars>>

\* createAgent: a fresh MemorySaver, hydrated when there is history
createAgentSaver(t, h) ==
  IF Len(h) > 0 THEN hydrateMemoryFromHistory(createMemorySaver, t, h)
  ELSE createMemorySaver

\* saver.put is reached, and may raise, only when every item converts
PutOutcomes(h) == IF Len(h) > 0 /\ ~MapThrows(h) THEN BOOLEAN ELSE {FALSE}

\* the console line of one call of the hydrator: none for an empty history,
\* "Hydrated n messages" or "Failed to hydrate memory"
hydrateLogOf(h, putRaises) ==
  IF Len(h) = 0 THEN <<>>
  ELSE IF MapThrows(h) \/ putRaises THEN <<"failed">>
  ELSE <<"hydrated">>

hydrateRethrows(h, putRaises) == Len(h) > 0 /\ (MapThrows(h) \/ putRaises)

\* whether the hydrator's promise rejects: the catch block swallows
hydrateRejects(h, putRaises) == FALSE

createAgentHydratesPerItem(t, h, putRaises) ==
  [saver |-> IF putRaises THEN createMemorySaver ELSE createAgentSaver(t, h),
   log |-> Concat([i \in 1..Len(h) |-> hydrateLogOf(h, putRaises)]),
   rejected |-> Len(h) > 0 /\ hydrateRejects(h, putRaises)]

\* createAgent: the store the graph is compiled with, what hydration logged,
\* and whether the call rejected
createAgent(t, h, putRaises) ==
  [saver |-> IF putRaises THEN createMemorySaver ELSE createAgentSaver(t, h),
   log |-> IF Len(h) > 0 THEN hydrateLogOf(h, putRaises) ELSE <<>>,
   rejected |-> Len(h) > 0 /\ hydrateRejects(h, putRaises)]

\* streamResponse up to the return of the generator
StreamResponse ==
  /\ pc = "called"
  /\ inputs' = StreamInputs(opts, userText)
  /\ \E putRaises \in PutOutcomes(history) :
       LET agent == createAgent(threadId, history, putRaises)
       IN  /\ saver' = agent.saver
           /\ hydrateLog' = agent.log
           /\ IF agent.rejected
              THEN messages' = <<>> /\ node' = "error"
              ELSE IF inputs'.kind = "state"
              THEN /\ messages' = AddMessages(getHistory(saver', threadId), inputs'.messages)
                   /\ node' = "agent"
              ELSE /\ messages' = getHistory(saver', threadId)
                   /\ node' = "resuming"
  /\ gen' = "open"
  /\ pc' = "streaming"
  /\ UNCHANGED <<hydratorVars, threadId, history, opts, userText, resume, emitted,
                 taken, deltas, toolRuns, interrupts, steps, aiCount, clientVars>>
  /\ UNCHANGED <<routeVars, chatVars, serverVars, uploadVars, endpointVars, mcpVars, storageVars>>

\* a resume command on the hydrated checkpoint: the runtime re-enters the gate
ResumeAtGate ==
  /\ pc = "streaming" /\ node = "resuming"
  /\ node' = "tool_approval"
  /\ resume' = inputs.resume
  /\ UNCHANGED <<hydratorVars, pc, requestVars, messages, toolRuns, interrupts, steps,
                 aiCount, streamVars, clientVars>>
  /\ UNCHANGED <<routeVars, chatVars, agentVars, serverVars, uploadVars, endpointVars, mcpVars, storageVars>>

\* ... or finds no task to run in a checkpoint that records no interrupt
ResumeNoTask ==
  /\ pc = "streaming" /\ node = "resuming"
  /\ node' = "END"
  /\ UNCHANGED <<hydratorVars, pc, requestVars, messages, resume, toolRuns, interrupts,
                 steps, aiCount, streamVars, clientVars>>
  /\ UNCHANGED <<routeVars, chatVars, agentVars, serverVars, uploadVars, endpointVars, mcpVars, storageVars>>

\* ... or rejects the command
ResumeRaises ==
  /\ pc = "streaming" /\ node = "resuming"
  /\ node' = "error"
  /\ UNCHANGED <<hydratorVars, pc, requestVars, messages, resume, toolRuns, interrupts,
                 steps, aiCount, streamVars, clientVars>>
  /\ UNCHANGED <<routeVars, chatVars, agentVars, serverVars, uploadVars, endpointVars, mcpVars, storageVars>>

\* the agent node and the conditional edge leaving it
CallModel ==
  /\ pc = "streaming" /\ node = "agent" /\ steps < RecursionLimit
  /\ \E out \in ModelOutputs(<<"r", aiCount + 1>>) :
       /\ messages' = AddMessages(messages, <<out>>)
       /\ emitted' = Append(emitted, Chunk("agent", <<out>>))
  /\ node' = shouldApproveTool(messages', opts.approveAllTools)
  /\ steps' = steps + 1
  /\ aiCount' = aiCount + 1
  /\ UNCHANGED <<hydratorVars, pc, requestVars, resume, toolRuns, interrupts, taken,
                 deltas, gen, clientVars>>
  /\ UNCHANGED <<routeVars, chatVars, agentVars, serverVars, uploadVars, endpointVars, mcpVars, storageVars>>

CallModelRaises ==
  /\ pc = "streaming" /\ node = "agent" /\ steps < RecursionLimit
  /\ node' = "error"
  /\ steps' = steps + 1
  /\ UNCHANGED <<hydratorVars, pc, requestVars, messages, resume, toolRuns, interrupts,
                 aiCount, streamVars, clientVars>>
  /\ UNCHANGED <<routeVars, chatVars, agentVars, serverVars, uploadVars, endpointVars, mcpVars, storageVars>>

\* the tool_approval node
ToolApproval ==
  /\ pc = "streaming" /\ node = "tool_approval" /\ steps < RecursionLimit
  /\ LET r == approveToolCall(messages, opts.approveAllTools, resume)
     IN  /\ node' = IF r.kind = "goto" THEN r.goto
                    ELSE IF r.kind = "interrupt" THEN "interrupted" ELSE "error"
         /\ messages' = IF r.kind = "goto" THEN AddMessages(messages, r.update) ELSE messages
         /\ interrupts' = IF r.kind = "interrupt"
                          THEN Append(interrupts, [question |-> "Is this correct?",
                                                   toolCall |-> r.toolCall])
                          ELSE interrupts
         /\ emitted' = IF r.kind = "goto" THEN Append(emitted, Chunk("tool_approval", r.update))
                       ELSE IF r.kind = "interrupt"
                       THEN Append(emitted, Chunk("__interrupt__", <<>>))
                       ELSE emitted
  /\ resume' = NoResume
  /\ steps' = steps + 1
  /\ UNCHANGED <<hydratorVars, pc, requestVars, toolRuns, aiCount, taken, deltas, gen,
                 clientVars>>
  /\ UNCHANGED <<routeVars, chatVars, agentVars, serverVars, uploadVars, endpointVars, mcpVars, storageVars>>

\* the tools node
Tools ==
  /\ pc = "streaming" /\ node = "tools" /\ steps < RecursionLimit
  /\ IF messages # <<>> /\ HasToolCalls(Last(messages))
     THEN /\ toolRuns' = toolRuns \o Last(messages).tool_calls
          /\ messages' = AddMessages(messages, ToolResults(messages))
          /\ emitted' = Append(emitted, Chunk("tools", ToolResults(messages)))
          /\ node' = "agent"
     ELSE /\ node' = "error"
          /\ UNCHANGED <<toolRuns, messages, emitted>>
  /\ steps' = steps + 1
  /\ UNCHANGED <<hydratorVars, pc, requestVars, resume, interrupts, aiCount, taken,
                 deltas, gen, clientVars>>
  /\ UNCHANGED <<routeVars, chatVars, agentVars, serverVars, uploadVars, endpointVars, mcpVars, storageVars>>

\* a tool raises while it runs
ToolsRaises ==
  /\ pc = "streaming" /\ node = "tools" /\ steps < RecursionLimit
  /\ messages # <<>> /\ HasToolCalls(Last(messages))
  /\ toolRuns' = Append(toolRuns, Head(Last(messages).tool_calls))
  /\ node' = "error"
  /\ steps' = steps + 1
  /\ UNCHANGED <<hydratorVars, pc, requestVars, messages, resume, interrupts, aiCount,
                 streamVars, clientVars>>
  /\ UNCHANGED <<routeVars, chatVars, agentVars, serverVars, uploadVars, endpointVars, mcpVars, storageVars>>

\* the runtime stops a run that reaches its superstep limit
RecursionStop ==
  /\ pc = "streaming" /\ node \in Runnable /\ steps >= RecursionLimit
  /\ node' = "error"
  /\ UNCHANGED <<hydratorVars, pc, requestVars, messages, resume, toolRuns, interrupts,
                 steps, aiCount, streamVars, clientVars>>
  /\ UNCHANGED <<routeVars, chatVars, agentVars, serverVars, uploadVars, endpointVars, mcpVars, storageVars>>

\* one iteration of the route's for-await loop: the generator handles the
\* next chunk and the route enqueues what it yields
GeneratorNext ==
  /\ pc = "streaming" /\ gen = "open" /\ taken < Len(emitted)
  /\ deltas' = Yield(deltas, YieldsOfChunk(emitted[taken + 1]))
  /\ taken' = taken + 1
  /\ wire' = RouteEnqueue(wire, YieldsOfChunk(emitted[taken + 1]))
  /\ UNCHANGED <<hydratorVars, pc, requestVars, graphVars, emitted, gen, clientVars>>
  /\ UNCHANGED <<closed, chatVars, agentVars, serverVars, uploadVars, endpointVars, mcpVars, storageVars>>

\* the iterable is exhausted: the generator returns, the route enqueues done
\* and closes the response
GeneratorReturn ==
  /\ pc = "streaming" /\ gen = "open" /\ taken = Len(emitted)
  /\ IterableDone(node)
  /\ gen' = "returned"
  /\ wire' = RouteDone(wire)
  /\ closed' = TRUE
  /\ UNCHANGED <<hydratorVars, pc, requestVars, graphVars, emitted, taken, deltas,
                 clientVars>>
  /\ UNCHANGED <<chatVars, agentVars, serverVars, uploadVars, endpointVars, mcpVars, storageVars>>

\* the iterable raises: the generator throws, the route enqueues the error
\* event and closes the response
GeneratorThrow ==
  /\ pc = "streaming" /\ gen = "open" /\ taken = Len(emitted)
  /\ node = "error"
  /\ gen' = "threw"
  /\ wire' = RouteError(wire, ErrorText)
  /\ closed' = TRUE
  /\ UNCHANGED <<hydratorVars, pc, requestVars, graphVars, emitted, taken, deltas,
                 clientVars>>
  /\ UNCHANGED <<chatVars, agentVars, serverVars, uploadVars, endpointVars, mcpVars, storageVars>>

\* the client has received the whole response: every event has reached its
\* listener, in order
TurnComplete ==
  /\ pc = "streaming" /\ closed
  /\ LET st == HandleAll([list |-> clientMsgs, current |-> current], wire, turns + 1)
     IN  /\ clientMsgs' = st.list
         /\ current' = st.current
  /\ stored' = saveMessages(stored, threadId, clientMsgs')
  /\ isSending' = FALSE
  /\ streamOpen' = FALSE
  /\ received' = Len(wire)
  /\ turns' = turns + 1
  /\ pc' = "idle"
  /\ UNCHANGED <<hydratorVars, requestVars, graphVars, streamVars>>
  /\ UNCHANGED <<routeVars, agentVars, serverVars, uploadVars, endpointVars, mcpVars, storageVars>>

Next ==
  \/ SendMessage
  \/ ApproveToolExecution
  \/ StreamResponse
  \/ ResumeAtGate
  \/ ResumeNoTask
  \/ ResumeRaises
  \/ CallModel
  \/ CallModelRaises
  \/ ToolApproval
  \/ Tools
  \/ ToolsRaises
  \/ RecursionStop
  \/ GeneratorNext
  \/ GeneratorReturn
  \/ GeneratorThrow
  \/ TurnComplete

Spec == Init /\ [][Next]_vars

\* the server keeps running a turn it has started
TurnStep ==
  \/ StreamResponse
  \/ ResumeAtGate
  \/ ResumeNoTask
  \/ ResumeRaises
  \/ CallModel
  \/ CallModelRaises
  \/ ToolApproval
  \/ Tools
  \/ ToolsRaises
  \/ RecursionStop
  \/ GeneratorNext
  \/ GeneratorReturn
  \/ GeneratorThrow

FairSpec == Spec /\ WF_vars(TurnStep)

(***************************************************************************)
(* The approval gate driven with every resume action                       *)
(***************************************************************************)
GateResumes ==
  {[action |-> a, data |-> d] : a \in {"continue", "update", "feedback"},
                                d \in {EmptyData, "x"}}

GateStates ==
  { <<HumanMessage(Str(A), <<"u", 1>>),
      AIMessage(Str(<<>>), <<"r", 1>>, <<TC1>>, "kw", "meta")>>,
    <<HumanMessage(Str(A), <<"u", 1>>),
      AIMessage(List(<<FunctionCallItem>>), <<"r", 1>>, <<TC1, TC2>>, "kw", "meta")>> }

InitGate ==
  /\ hpc = "off"
  /\ readBack = <<>>
  /\ pc = "streaming"
  /\ threadId = "T1"
  /\ history = <<>>
  /\ saver = createMemorySaver
  /\ \E approve \in BOOLEAN : opts = Opts("allow", approve)
  /\ userText = <<>>
  /\ resume \in GateResumes
  /\ inputs = Command(resume)
  /\ node = "tool_approval"
  /\ messages \in GateStates
  /\ emitted = <<>>
  /\ taken = 0
  /\ deltas = <<>>
  /\ gen = "open"
  /\ toolRuns = <<>>
  /\ interrupts = <<>>
  /\ steps = 0
  /\ aiCount = 1
  /\ clientMsgs = <<>>
  /\ turns = 0
  /\ RouteIdle /\ ChatIdle /\ AgentIdle /\ ServerIdle /\ UploadIdle
  /\ EndpointIdle /\ McpIdle /\ StorageIdle

NextGate ==
  \/ ToolApproval
  \/ Tools
  \/ ToolsRaises
  \/ CallModel
  \/ CallModelRaises
  \/ RecursionStop
  \/ GeneratorNext
  \/ GeneratorReturn
  \/ GeneratorThrow

SpecGate == InitGate /\ [][NextGate]_vars

(***************************************************************************)
(* The generator driven with every kind of chunk                           *)
(***************************************************************************)
ChunkPool ==
  { Chunk("agent", <<AIMessage(Str(A), <<"r", 1>>, <<>>, Undefined, Undefined)>>),
    Chunk("agent", <<AIMessage(Str(<<" ", "\n">>), <<"r", 2>>, <<>>, Undefined, Undefined)>>),
    Chunk("agent", <<AIMessage(Str(<<>>), <<"r", 3>>, <<TC1>>, "kw", "meta")>>),
    Chunk("agent", <<AIMessage(List(<<TextItem(A), ImageItem, StringItem(B)>>),
                               <<"r", 4>>, <<>>, Undefined, Undefined)>>),
    Chunk("agent", <<AIMessage(List(<<TextItem(A), FunctionCallItem>>),
                               <<"r", 5>>, <<TC1, TC2>>, "kw", "meta")>>),
    Chunk("agent", <<AIMessage(List(<<FunctionCallItem>>), NoId, <<>>, Undefined, Undefined)>>),
    Chunk("agent", <<AIMessage(NoContent, <<"r", 6>>, <<>>, Undefined, Undefined)>>),
    Chunk("agent", <<Base("AIMessageChunk", <<"r", 1>>, Str(B), <<>>, Undefined, Undefined, NoId)>>),
    Chunk("agent", <<HumanMessage(Str(A), <<"u", 1>>)>>),
    Chunk("tools", <<ToolMessage(Str(A), <<"tc", 1>>)>>),
    Chunk("tool_approval", <<AIMessage(Str(A), <<"r", 7>>, <<TC1>>, Undefined, Undefined)>>),
    Chunk("__interrupt__", <<>>),
    [type |-> "values", node |-> "agent",
     messages |-> <<AIMessage(Str(A), <<"r", 8>>, <<>>, Undefined, Undefined)>>] }

InitStream ==
  /\ hpc = "off"
  /\ readBack = <<>>
  /\ pc = "streaming"
  /\ threadId = "T1"
  /\ history = <<>>
  /\ saver = createMemorySaver
  /\ opts = NoOpts
  /\ userText = A
  /\ resume = NoResume
  /\ inputs = StreamInputs(opts, userText)
  /\ node \in {"END", "interrupted", "error"}
  /\ messages = <<>>
  /\ emitted \in SeqsUpTo(ChunkPool, MaxChunks)
  /\ taken = 0
  /\ deltas = <<>>
  /\ gen = "open"
  /\ toolRuns = <<>>
  /\ interrupts = <<>>
  /\ steps = 0
  /\ aiCount = 0
  /\ clientMsgs = <<>>
  /\ turns = 0
  /\ RouteIdle /\ ChatIdle /\ AgentIdle /\ ServerIdle /\ UploadIdle
  /\ EndpointIdle /\ McpIdle /\ StorageIdle

NextStream ==
  \/ GeneratorNext
  \/ GeneratorReturn
  \/ GeneratorThrow

SpecStream == InitStream /\ [][NextStream]_vars

(***************************************************************************)
(* The client's listeners driven with every response, one event at a time  *)
(***************************************************************************)
DeltaPool ==
  { Msg("ai", <<"r", 1>>, Str(A), <<>>, Undefined, Undefined),
    Msg("ai", <<"r", 1>>, Str(B), <<>>, Undefined, Undefined),
    Msg("ai", <<"r", 2>>, Str(A), <<>>, Undefined, Undefined),
    Msg("ai", <<"r", 3>>, Str(<<>>), <<TC1>>, "kw", "meta") }

\* what the route can send: data events, then done or error
Responses ==
  { RouteDone(RouteEnqueue(<<>>, ds)) : ds \in SeqsUpTo(DeltaPool, MaxChunks) }
    \cup { RouteError(RouteEnqueue(<<>>, ds), ErrorText) : ds \in SeqsUpTo(DeltaPool, MaxChunks) }

\* the thread before the turn: new, after one exchange, or awaiting approval
ClientLists ==
  { <<>>,
    << Msg("human", <<"u", 0>>, Str(A), <<>>, Undefined, Undefined),
       Msg("ai", <<"r", 0>>, Str(B), <<>>, Undefined, Undefined) >>,
    << Msg("human", <<"u", 0>>, Str(A), <<>>, Undefined, Undefined),
       Msg("ai", <<"r", 0>>, Str(<<>>), <<TC1>>, "kw", "meta") >> }

InitClient ==
  /\ hpc = "off"
  /\ readBack = <<>>
  /\ pc = "idle"
  /\ threadId \in ThreadIds
  /\ history = <<>>
  /\ saver = createMemorySaver
  /\ opts = NoOpts
  /\ userText = <<>>
  /\ inputs = NoInputs
  /\ node = "none"
  /\ messages = <<>>
  /\ resume = NoResume
  /\ emitted = <<>>
  /\ taken = 0
  /\ deltas = <<>>
  /\ gen = "none"
  /\ toolRuns = <<>>
  /\ interrupts = <<>>
  /\ steps = 0
  /\ aiCount = 0
  /\ clientMsgs \in ClientLists
  /\ turns = MaxTurns - 1
  /\ current = NoCurrent
  /\ isSending = FALSE
  /\ streamOpen = FALSE
  /\ stored = saveMessages([t \in ThreadIds |-> <<>>], threadId, clientMsgs)
  /\ received = 0
  /\ RouteIdle /\ AgentIdle /\ ServerIdle /\ UploadIdle
  /\ EndpointIdle /\ McpIdle /\ StorageIdle

\* the server's whole response to the request
Respond ==
  /\ pc = "called"
  /\ wire' \in Responses
  /\ closed' = TRUE
  /\ pc' = "streaming"
  /\ UNCHANGED <<hydratorVars, requestVars, graphVars, streamVars, clientVars>>
  /\ UNCHANGED <<chatVars, agentVars, serverVars, uploadVars, endpointVars, mcpVars, storageVars>>

\* stream.onmessage for the next data event
ClientOnMessage ==
  /\ pc = "streaming" /\ streamOpen /\ received < Len(wire)
  /\ wire[received + 1].event = "message"
  /\ LET st == OnMessage([list |-> clientMsgs, current |-> current], wire[received + 1].data)
     IN  /\ clientMsgs' = st.list
         /\ current' = st.current
  /\ stored' = saveMessages(stored, threadId, clientMsgs')
  /\ received' = received + 1
  /\ UNCHANGED <<hydratorVars, pc, requestVars, graphVars, streamVars, turns>>
  /\ UNCHANGED <<routeVars, isSending, streamOpen, agentVars, serverVars, uploadVars, endpointVars, mcpVars, storageVars>>

\* the done listener
ClientOnDone ==
  /\ pc = "streaming" /\ streamOpen /\ received < Len(wire)
  /\ wire[received + 1].event = "done"
  /\ LET st == OnDone([list |-> clientMsgs, current |-> current])
     IN  /\ clientMsgs' = st.list
         /\ current' = st.current
  /\ stored' = saveMessages(stored, threadId, clientMsgs')
  /\ isSending' = FALSE
  /\ streamOpen' = FALSE
  /\ received' = received + 1
  /\ turns' = turns + 1
  /\ pc' = "idle"
  /\ UNCHANGED <<hydratorVars, requestVars, graphVars, streamVars>>
  /\ UNCHANGED <<routeVars, agentVars, serverVars, uploadVars, endpointVars, mcpVars, storageVars>>

\* the error listener
ClientOnError ==
  /\ pc = "streaming" /\ streamOpen /\ received < Len(wire)
  /\ wire[received + 1].event = "error"
  /\ LET st == OnError([list |-> clientMsgs, current |-> current], turns + 1)
     IN  /\ clientMsgs' = st.list
         /\ current' = st.current
  /\ stored' = saveMessages(stored, threadId, clientMsgs')
  /\ isSending' = FALSE
  /\ streamOpen' = FALSE
  /\ received' = received + 1
  /\ turns' = turns + 1
  /\ pc' = "idle"
  /\ UNCHANGED <<hydratorVars, requestVars, graphVars, streamVars>>
  /\ UNCHANGED <<routeVars, agentVars, serverVars, uploadVars, endpointVars, mcpVars, storageVars>>

NextClient ==
  \/ SendMessage
  \/ ApproveToolExecution
  \/ Respond
  \/ ClientOnMessage
  \/ ClientOnDone
  \/ ClientOnError

SpecClient == InitClient /\ [][NextClient]_vars

(***************************************************************************)
(* One request: createAgent and the turn, for every kind of history        *)
(***************************************************************************)
RequestItems ==
  { Msg("human", <<"h", 1>>, Str(A), <<>>, Undefined, Undefined),
    Msg("ai", <<"a", 2>>, Str(<<>>), <<TC1>>, "kw", "meta"),
    MalformedItem }

RequestHistories == SeqsUpTo(RequestItems, MaxHist)

\* the number of checkpoints held by a store
Writes(s) == Cardinality({<<t, i>> \in ThreadIds \X (1..MaxHist) : i <= Len(s[t])})

InitRequest ==
  /\ hpc = "off"
  /\ readBack = <<>>
  /\ pc = "called"
  /\ threadId \in ThreadIds
  /\ history \in RequestHistories
  /\ saver = createMemorySaver
  /\ opts \in {Opts(Undefined, FALSE), Opts(Undefined, TRUE), Opts("allow", FALSE)}
  /\ userText = IF opts.allowTool = Undefined THEN A ELSE <<>>
  /\ inputs = NoInputs
  /\ node = "none"
  /\ messages = <<>>
  /\ resume = NoResume
  /\ emitted = <<>>
  /\ taken = 0
  /\ deltas = <<>>
  /\ gen = "none"
  /\ toolRuns = <<>>
  /\ interrupts = <<>>
  /\ steps = 0
  /\ aiCount = 0
  /\ clientMsgs = history
  /\ turns = 0
  /\ RouteIdle /\ ChatIdle /\ AgentIdle /\ ServerIdle /\ UploadIdle
  /\ EndpointIdle /\ McpIdle /\ StorageIdle

NextRequest == TurnStep

SpecRequest == InitRequest /\ [][NextRequest]_vars

(***************************************************************************)
(* Two requests in flight on one server                                    *)
(***************************************************************************)
Requests == {"r1", "r2"}

ServerHistories ==
  { <<>>,
    << Msg("human", <<"h", 1>>, Str(A), <<>>, Undefined, Undefined) >>,
    << Msg("human", <<"h", 1>>, Str(B), <<>>, Undefined, Undefined),
       Msg("ai", <<"a", 1>>, Str(A), <<>>, Undefined, Undefined) >> }

NoRequest == [phase |-> "none", thread |-> "none", history |-> <<>>, store |-> 0, seen |-> <<>>]

moduleSaver(ss) == 1

\* new MemorySaver(): an object that no earlier request holds
newMemorySaver(ss) == Len(ss) + 1

InitServer ==
  /\ hpc = "off"
  /\ readBack = <<>>
  /\ pc = "off"
  /\ threadId = "T1"
  /\ history = <<>>
  /\ saver = createMemorySaver
  /\ opts = NoOpts
  /\ userText = <<>>
  /\ inputs = NoInputs
  /\ node = "none"
  /\ messages = <<>>
  /\ resume = NoResume
  /\ emitted = <<>>
  /\ taken = 0
  /\ deltas = <<>>
  /\ gen = "none"
  /\ toolRuns = <<>>
  /\ interrupts = <<>>
  /\ steps = 0
  /\ aiCount = 0
  /\ clientMsgs = <<>>
  /\ turns = 0
  /\ stores = <<>>
  /\ reqs = [r \in Requests |-> NoRequest]
  /\ RouteIdle /\ ChatIdle /\ AgentIdle /\ UploadIdle
  /\ EndpointIdle /\ McpIdle /\ StorageIdle

ServerFrame ==
  UNCHANGED <<hydratorVars, pc, requestVars, graphVars, streamVars, clientVars,
              routeVars, chatVars, agentVars, uploadVars, endpointVars, mcpVars, storageVars>>

\* a request arrives with its thread id and history
ReqArrive(r) ==
  /\ reqs[r].phase = "none"
  /\ \E t \in ThreadIds, h \in ServerHistories :
       reqs' = [reqs EXCEPT ![r] = [NoRequest EXCEPT !.phase = "called",
                                                      !.thread = t, !.history = h]]
  /\ UNCHANGED stores
  /\ ServerFrame

\* createAgent: the store is created, hydrated and handed to the graph
ReqCreateAgent(r) ==
  /\ reqs[r].phase = "called"
  /\ LET ref == newMemorySaver(stores)
         heap == IF ref > Len(stores) THEN Append(stores, createMemorySaver) ELSE stores
     IN  /\ stores' = [heap EXCEPT ![ref] =
                         IF Len(reqs[r].history) > 0
                         THEN hydrateMemoryFromHistory(@, reqs[r].thread, reqs[r].history)
                         ELSE @]
         /\ reqs' = [reqs EXCEPT ![r].phase = "ready", ![r].store = ref]
  /\ ServerFrame

\* the graph runs: it loads the thread's checkpoint and saves the new state
ReqStream(r) ==
  /\ reqs[r].phase = "ready"
  /\ LET loaded == getHistory(stores[reqs[r].store], reqs[r].thread)
         after == AddMessages(loaded, <<HumanMessage(Str(A), NoId)>>)
     IN  /\ reqs' = [reqs EXCEPT ![r].phase = "ran", ![r].seen = loaded]
         /\ stores' = [stores EXCEPT ![reqs[r].store] =
                         SaverPut(@, reqs[r].thread, Checkpoint(after))]
  /\ ServerFrame

\* the response is closed; the agent and its store are dropped
ReqEnd(r) ==
  /\ reqs[r].phase = "ran"
  /\ reqs' = [reqs EXCEPT ![r].phase = "done", ![r].store = 0]
  /\ UNCHANGED stores
  /\ ServerFrame

NextServer ==
  \E r \in Requests :
    \/ ReqArrive(r)
    \/ ReqCreateAgent(r)
    \/ ReqStream(r)
    \/ ReqEnd(r)

SpecServer == InitServer /\ [][NextServer]_vars

(***************************************************************************)
(* validateFile                                                            *)
(***************************************************************************)
OCTET_STREAM_ALLOWED_EXTENSIONS == {"md", "markdown", "txt"}
MAX_OCTET_STREAM_SIZE == 2 * 1024 * 1024

ALLOWED_MIME_TYPES ==
  [t \in {"image/png", "image/jpeg", "image/jpg", "application/pdf",
          "text/markdown", "text/plain"} |->
     CASE t = "image/png" -> [ext |-> "png", maxSize |-> 5 * 1024 * 1024]
       [] t = "image/jpeg" -> [ext |-> "jpg", maxSize |-> 5 * 1024 * 1024]
       [] t = "image/jpg" -> [ext |-> "jpg", maxSize |-> 5 * 1024 * 1024]
       [] t = "application/pdf" -> [ext |-> "pdf", maxSize |-> 10 * 1024 * 1024]
       [] t = "text/markdown" -> [ext |-> "md", maxSize |-> 2 * 1024 * 1024]
       [] OTHER -> [ext |-> "txt", maxSize |-> 2 * 1024 * 1024]]

\* lower-case names that every object literal inherits from Object.prototype
ProtoKeys == {"constructor", "__proto__"}

\* key in obj: own keys and inherited ones
In(key, obj) == key \in DOMAIN obj \/ key \in ProtoKeys

\* String.prototype.toLowerCase on the name segments used here
toLowerCase(seg) ==
  CASE seg = "TXT" -> "txt"
    [] seg = "Md" -> "md"
    [] seg = "MARKDOWN" -> "markdown"
    [] seg = "README" -> "readme"
    [] OTHER -> seg

\* file.name.split(".").pop()?.toLowerCase() || "" ; a name is its segments
Extension(name) == IF Len(name) = 0 THEN "" ELSE toLowerCase(name[Len(name)])

ExceedsOrEquals(size, max) == size >= max

\* file.size > maxSize
Exceeds(size, max) == size > max

Valid == [field |-> "null"]
ValidationError(f) == [field |-> f]

validateFile(f) ==
  IF f.type = "application/octet-stream"
  THEN IF Extension(f.name) \notin OCTET_STREAM_ALLOWED_EXTENSIONS THEN ValidationError("type")
       ELSE IF Exceeds(f.size, MAX_OCTET_STREAM_SIZE) THEN ValidationError("size")
       ELSE Valid
  ELSE IF ~In(f.type, ALLOWED_MIME_TYPES) THEN ValidationError("type")
  \* an inherited key has no maxSize: size > undefined is false
  ELSE IF f.type \in DOMAIN ALLOWED_MIME_TYPES
          /\ Exceeds(f.size, ALLOWED_MIME_TYPES[f.type].maxSize)
       THEN ValidationError("size")
  ELSE Valid

FileTypes ==
  DOMAIN ALLOWED_MIME_TYPES
    \cup {"application/octet-stream", "image/gif", "", "constructor"}

FileNames ==
  { <<"notes", "txt">>, <<"notes", "TXT">>, <<"a", "tar", "Md">>, <<"doc", "MARKDOWN">>,
    <<"x", "bin">>, <<"README">>, <<"md">>, <<"x", "">> }

FileSizes ==
  {0} \cup UNION { {m - 1, m, m + 1} :
                   m \in {2 * 1024 * 1024, 5 * 1024 * 1024, 10 * 1024 * 1024} }

Files == [type : FileTypes, name : FileNames, size : FileSizes]

InitValidate ==
  /\ hpc = "off"
  /\ readBack = <<>>
  /\ pc = "off"
  /\ threadId = "T1"
  /\ history = <<>>
  /\ saver = createMemorySaver
  /\ opts = NoOpts
  /\ userText = <<>>
  /\ inputs = NoInputs
  /\ node = "none"
  /\ messages = <<>>
  /\ resume = NoResume
  /\ emitted = <<>>
  /\ taken = 0
  /\ deltas = <<>>
  /\ gen = "none"
  /\ toolRuns = <<>>
  /\ interrupts = <<>>
  /\ steps = 0
  /\ aiCount = 0
  /\ clientMsgs = <<>>
  /\ turns = 0
  /\ file \in Files
  /\ verdict = NoVerdict
  /\ RouteIdle /\ ChatIdle /\ AgentIdle /\ ServerIdle
  /\ EndpointIdle /\ McpIdle /\ StorageIdle

ValidateFile ==
  /\ verdict = NoVerdict
  /\ verdict' = validateFile(file)
  /\ UNCHANGED <<hydratorVars, pc, requestVars, graphVars, streamVars, clientVars,
                 routeVars, chatVars, agentVars, serverVars, file,
                 endpointVars, mcpVars, storageVars>>

NextValidate == ValidateFile

SpecValidate == InitValidate /\ [][NextValidate]_vars

(***************************************************************************)
(* The upload endpoint (POST /api/upload)                                  *)
(***************************************************************************)
\* a request whose body request.formData() rejects
BadBody == [type |-> "unparsable", name |-> <<>>, size |-> 0]

\* isValidTextContent: accepts all content
isValidTextContent(f) == TRUE

\* file.name.split(".").pop() || "bin"
KeyExtension(name) ==
  IF Len(name) = 0 \/ name[Len(name)] = "" THEN "bin" ELSE name[Len(name)]

\* `${randomUUID()}.${extension}`
ObjectKey(f) == <<"uuid", KeyExtension(f.name)>>

ErrorResponse(status, field) == [NoResponse EXCEPT !.status = status, !.field = field]

SuccessResponse(f) ==
  [status |-> 200, field |-> "none", success |-> TRUE, key |-> ObjectKey(f),
   name |-> f.name, type |-> f.type, size |-> f.size]

\* uploadFile, or uploadLargeFile above 5MB
PutObject(b, f) ==
  Append(b, [key |-> ObjectKey(f), type |-> f.type, size |-> f.size,
             multipart |-> f.size > 5 * 1024 * 1024])

PostStoresBeforeValidation(f, putOk, b) ==
  IF f = BadBody THEN [bucket |-> b, response |-> ErrorResponse(500, "server"), calls |-> 0]
  ELSE IF f = NoFile THEN [bucket |-> b, response |-> ErrorResponse(400, "file"), calls |-> 0]
  ELSE IF ~putOk THEN [bucket |-> b, response |-> ErrorResponse(500, "server"), calls |-> 1]
  ELSE IF validateFile(f) # Valid
    THEN [bucket |-> PutObject(b, f),
          response |-> ErrorResponse(400, validateFile(f).field), calls |-> 1]
  ELSE [bucket |-> PutObject(b, f), response |-> SuccessResponse(f), calls |-> 1]

\* POST: the response, the object store afterwards and the upload calls made
Post(f, putOk, b) ==
  IF f = BadBody THEN [bucket |-> b, response |-> ErrorResponse(500, "server"), calls |-> 0]
  ELSE IF f = NoFile THEN [bucket |-> b, response |-> ErrorResponse(400, "file"), calls |-> 0]
  ELSE IF validateFile(f) # Valid
    THEN [bucket |-> b, response |-> ErrorResponse(400, validateFile(f).field), calls |-> 0]
  ELSE IF f.type = "application/octet-stream"
          /\ Extension(f.name) \in {"md", "markdown", "txt"} /\ ~isValidTextContent(f)
    THEN [bucket |-> b, response |-> ErrorResponse(400, "content"), calls |-> 0]
  ELSE IF ~putOk
    THEN [bucket |-> b, response |-> ErrorResponse(500, "server"), calls |-> 1]
  ELSE [bucket |-> PutObject(b, f), response |-> SuccessResponse(f), calls |-> 1]

\* whether the request reaches the upload call
ReachesPut(f) == f \notin {BadBody, NoFile} /\ validateFile(f) = Valid

InitUpload ==
  /\ AgentOff
  /\ file \in Files \cup {NoFile, BadBody}
  /\ verdict = NoVerdict
  /\ EndpointIdle /\ McpIdle /\ StorageIdle

UploadPost ==
  /\ response = NoResponse
  /\ \E putOk \in (IF ReachesPut(file) THEN BOOLEAN ELSE {TRUE}) :
       LET out == Post(file, putOk, bucket)
       IN  /\ bucket' = out.bucket
           /\ response' = out.response
           /\ putCalls' = putCalls + out.calls
  /\ AgentFrame
  /\ UNCHANGED <<uploadVars, mcpVars, storageVars>>

NextUpload == UploadPost

SpecUpload == InitUpload /\ [][NextUpload]_vars

(***************************************************************************)
(* The tool registry (mcp.ts) and the tools createAgent binds              *)
(***************************************************************************)
\* an element of config.servers; target is the command or the url
Server(name, enabled, type, target) ==
  [name |-> name, enabled |-> enabled, type |-> type, target |-> target]

ServerPool ==
  { Server(n, e, k[1], k[2]) :
      n \in {"fs", "web"}, e \in {"true", "false", "missing"},
      k \in {<<"stdio", TRUE>>, <<"stdio", FALSE>>, <<"http", TRUE>>, <<"sse", TRUE>>} }

ConfigFiles ==
  { [shape |-> sh, servers |-> <<>>, cfgTools |-> ct] :
      sh \in {"missing", "garbage", "null", "noServers"}, ct \in {<<>>, <<"calc">>} }
    \cup { [shape |-> "ok", servers |-> ss, cfgTools |-> ct] :
             ss \in SeqsUpTo(ServerPool, 2), ct \in {<<>>, <<"calc">>} }

EnabledUnlessFalse(server) == server.enabled # "false"

\* !server.enabled is false
Enabled(server) == server.enabled = "true"

\* configs[server.name] = config
SetConfig(configs, name, config) ==
  IF \E i \in 1..Len(configs) : configs[i].name = name
  THEN [i \in 1..Len(configs) |->
          IF configs[i].name = name THEN [name |-> name, transport |-> config]
          ELSE configs[i]]
  ELSE Append(configs, [name |-> name, transport |-> config])

\* the loop over config.servers from element i on
RECURSIVE CollectConfigs(_, _, _)
CollectConfigs(servers, i, configs) ==
  IF i > Len(servers) THEN configs
  ELSE LET server == servers[i]
       IN  IF ~Enabled(server) THEN CollectConfigs(servers, i + 1, configs)
           ELSE IF server.type = "stdio" /\ server.target
             THEN CollectConfigs(servers, i + 1, SetConfig(configs, server.name, "stdio"))
           ELSE IF server.type = "http" /\ server.target
             THEN CollectConfigs(servers, i + 1, SetConfig(configs, server.name, "http"))
           ELSE CollectConfigs(servers, i + 1, configs)

\* getMCPServerConfigs: {} when the file is missing, JSON.parse throws, the
\* parsed value has no servers array (null makes the property read throw)
getMCPServerConfigs(cf) ==
  IF cf.shape # "ok" THEN <<>> ELSE CollectConfigs(cf.servers, 1, <<>>)

\* createMCPClient: null without servers or when the constructor throws
createMCPClient(cf, failure) ==
  IF getMCPServerConfigs(cf) = <<>> \/ failure = "create" THEN <<>>
  ELSE getMCPServerConfigs(cf)

\* client.getTools(): one prefixed tool per server that answers
ClientTools(client, reachable) ==
  SelectSeq([i \in 1..Len(client) |-> client[i].name], LAMBDA n : n \in reachable)

\* getMCPTools
getMCPTools(cf, failure, reachable) ==
  IF createMCPClient(cf, failure) = <<>> THEN <<>>
  ELSE IF failure = "query" THEN <<>>
  ELSE ClientTools(createMCPClient(cf, failure), reachable)

getMCPToolsRethrows(cf, failure) == getMCPServerConfigs(cf) # <<>> /\ failure # "none"

\* whether getMCPTools rejects: every body is inside a try whose catch returns
getMCPToolsRejects(cf, failure) == FALSE

\* createAgent lines 27-29 and the build: [...configTools, ...mcpTools]
createAgentTools(cf, failure, reachable) ==
  [configs |-> getMCPServerConfigs(cf),
   tools |-> getMCPTools(cf, failure, reachable),
   agentTools |-> IF getMCPToolsRejects(cf, failure) THEN <<>>
                  ELSE cf.cfgTools \o getMCPTools(cf, failure, reachable),
   threw |-> getMCPToolsRejects(cf, failure),
   built |-> ~getMCPToolsRejects(cf, failure),
   failure |-> IF getMCPServerConfigs(cf) = <<>> THEN "none" ELSE failure]

InitMcp ==
  /\ AgentOff /\ UploadIdle /\ EndpointIdle /\ StorageIdle
  /\ configFile \in ConfigFiles
  /\ mcpOut = NoMcpOut

\* one call of createAgent as far as the tools are concerned
LoadTools ==
  /\ mcpOut = NoMcpOut
  /\ \E failure \in {"none", "create", "query"}, reachable \in SUBSET {"fs", "web"} :
       mcpOut' = createAgentTools(configFile, failure, reachable)
  /\ AgentFrame
  /\ UNCHANGED <<uploadVars, endpointVars, configFile, storageVars>>

NextMcp == LoadTools

SpecMcp == InitMcp /\ [][NextMcp]_vars

(***************************************************************************)
(* localStorage.ts, ThreadContext and useThreads                           *)
(***************************************************************************)
Thread(id, title, at) == [id |-> id, title |-> title, updatedAt |-> at]
NoThread == Thread(Null, "", 0)

MessageLists == { <<"m1">>, <<"m1", "m2">> }

\* what a call of the storage module gave back to its caller
Outcome(op, list, id, raised) == [op |-> op, list |-> list, id |-> id, raised |-> raised]

ParseUncaught(value) == value.state = "corrupt"

\* whether JSON.parse's throw leaves getThreads / getMessages: the catch returns []
ParseRaises(value) == FALSE

\* data ? JSON.parse(data) : [], inside the try
ParseOrEmpty(value) == IF value.state = "ok" THEN value.list ELSE <<>>

getThreads(s) == ParseOrEmpty(s.threads)

getMessages(s, t) == ParseOrEmpty(s.msgs[t])

\* threads.findIndex((t) => t.id === id), 0 for -1
FindIndex(threads, id) ==
  IF \E i \in 1..Len(threads) : threads[i].id = id
  THEN CHOOSE i \in 1..Len(threads) :
         threads[i].id = id /\ \A j \in 1..(i - 1) : threads[j].id # id
  ELSE 0

getThread(s, t) ==
  IF FindIndex(getThreads(s), t) = 0 THEN NoThread
  ELSE getThreads(s)[FindIndex(getThreads(s), t)]

saveThreadAppends(s, thread, now, ok) ==
  IF ~ok THEN s
  ELSE [s EXCEPT !.threads = Item(<<[thread EXCEPT !.updatedAt = now]>> \o getThreads(s))]

\* saveThread; ok is false when localStorage.setItem throws
saveThread(s, thread, now, ok) ==
  IF ~ok THEN s
  ELSE LET threads == getThreads(s)
           index == FindIndex(threads, thread.id)
           updatedThread == [thread EXCEPT !.updatedAt = now]
       IN  [s EXCEPT !.threads =
              Item(IF index > 0 THEN [threads EXCEPT ![index] = updatedThread]
                   ELSE <<updatedThread>> \o threads)]

deleteThreadKeepsMessages(s, t, ok) ==
  IF ~ok THEN s
  ELSE [s EXCEPT !.threads = Item(SelectSeq(getThreads(s), LAMBDA th : th.id # t))]

\* deleteThread: the removeItem is skipped when the setItem before it throws
deleteThread(s, t, ok) ==
  IF ~ok THEN s
  ELSE [s EXCEPT !.threads = Item(SelectSeq(getThreads(s), LAMBDA th : th.id # t)),
                 !.msgs[t] = Absent]

\* saveMessages of localStorage.ts: the record is written, then the thread,
\* when it is in the list, is saved again to refresh updatedAt
saveMessagesOfThread(s, t, list, now, okMessages, okThread) ==
  IF ~okMessages THEN s
  ELSE LET written == [s EXCEPT !.msgs[t] = Item(list)]
       IN  IF getThread(written, t) = NoThread THEN written
           ELSE saveThread(written, getThread(written, t), now, okThread)

getActiveThreadId(s) == s.active

WriteUncaught(ok) == ~ok

\* whether a throw of setItem leaves saveThread, saveMessages or deleteThread:
\* each has its body inside a try whose catch only logs
WriteRaises(ok) == FALSE

\* setActiveThreadId of localStorage.ts; removeItem does not throw
saveActiveThreadId(s, t, ok) ==
  IF t # Null THEN (IF ok THEN [s EXCEPT !.active = t] ELSE s)
  ELSE [s EXCEPT !.active = Null]

\* the setItem of the active pointer is not inside a try
ActiveWriteRaises(t, ok) == t # Null /\ ~ok

\* the ids a stored list names
IdsOf(threads) == {threads[i].id : i \in 1..Len(threads)}

StorageStarts ==
  { [ls |-> EmptyStorage, minted |-> {}],
    [ls |-> [EmptyStorage EXCEPT !.threads = Corrupt], minted |-> {}],
    [ls |-> [EmptyStorage EXCEPT !.threads = Item(<<Thread(1, "New thread", 0)>>),
                                 !.msgs[1] = Corrupt],
     minted |-> {1}],
    [ls |-> [EmptyStorage EXCEPT !.threads = Item(<<Thread(1, "New thread", 0)>>),
                                 !.msgs[1] = Item(<<"m1">>), !.active = 1],
     minted |-> {1}] }

InitStorage ==
  /\ AgentOff /\ UploadIdle /\ EndpointIdle /\ McpIdle
  /\ \E start \in StorageStarts : ls = start.ls /\ minted = start.minted
  /\ activeId = getActiveThreadId(ls)
  /\ clock = 0
  /\ lastRead = NoRead

StorageFrame ==
  /\ AgentFrame
  /\ UNCHANGED <<uploadVars, endpointVars, mcpVars>>

\* useThreads.createThread
CreateThread ==
  /\ Cardinality(minted) < MaxThreads /\ clock < MaxClock
  /\ LET id == Cardinality(minted) + 1
     IN  \E okThread \in BOOLEAN, okActive \in BOOLEAN :
           /\ minted' = minted \cup {id}
           /\ clock' = clock + 1
           /\ ls' = saveActiveThreadId(
                      saveThread(ls, Thread(id, "New thread", clock + 1), clock + 1, okThread),
                      id, okActive)
           /\ activeId' = id
           /\ lastRead' = Outcome("createThread", <<>>, id, ActiveWriteRaises(id, okActive))
  /\ StorageFrame

\* useThreads.deleteThread
DeleteThread ==
  /\ \E t \in minted, ok \in BOOLEAN :
       /\ ls' = IF activeId = t
                THEN saveActiveThreadId(deleteThread(ls, t, ok), Null, TRUE)
                ELSE deleteThread(ls, t, ok)
       /\ activeId' = IF activeId = t THEN Null ELSE activeId
       /\ lastRead' = Outcome("deleteThread", <<>>, t, WriteRaises(ok))
  /\ UNCHANGED <<clock, minted>>
  /\ StorageFrame

\* useThreads.switchThread
SwitchThread ==
  /\ \E t \in ThreadIdsOfStore, ok \in BOOLEAN :
       /\ ls' = saveActiveThreadId(ls, t, ok)
       /\ activeId' = t
       /\ lastRead' = Outcome("switchThread", <<>>, t, ActiveWriteRaises(t, ok))
  /\ UNCHANGED <<clock, minted>>
  /\ StorageFrame

\* saveMessages called for a thread the client has open or is streaming
SaveMessages ==
  /\ clock < MaxClock
  /\ \E t \in minted, list \in MessageLists, okMessages \in BOOLEAN, okThread \in BOOLEAN :
       /\ ls' = saveMessagesOfThread(ls, t, list, clock + 1, okMessages, okThread)
       /\ lastRead' = Outcome("saveMessages", <<>>, t,
                            WriteRaises(okMessages) \/ WriteRaises(okThread))
  /\ clock' = clock + 1
  /\ UNCHANGED <<activeId, minted>>
  /\ StorageFrame

\* saveThread called with a thread object of a known id
SaveThread ==
  /\ clock < MaxClock
  /\ \E t \in minted, title \in {"New thread", "renamed"}, ok \in BOOLEAN :
       /\ ls' = saveThread(ls, Thread(t, title, clock), clock + 1, ok)
       /\ lastRead' = Outcome("saveThread", <<>>, t, WriteRaises(ok))
  /\ clock' = clock + 1
  /\ UNCHANGED <<activeId, minted>>
  /\ StorageFrame

\* the three reads
GetThreads ==
  /\ lastRead' = Outcome("getThreads", [i \in 1..Len(getThreads(ls)) |-> getThreads(ls)[i].id],
                       Null, ParseRaises(ls.threads))
  /\ UNCHANGED <<ls, activeId, clock, minted>>
  /\ StorageFrame

GetMessages ==
  /\ \E t \in ThreadIdsOfStore :
       lastRead' = Outcome("getMessages", getMessages(ls, t), t, ParseRaises(ls.msgs[t]))
  /\ UNCHANGED <<ls, activeId, clock, minted>>
  /\ StorageFrame

GetActiveThreadId ==
  /\ lastRead' = Outcome("getActiveThreadId", <<>>, getActiveThreadId(ls), FALSE)
  /\ UNCHANGED <<ls, activeId, clock, minted>>
  /\ StorageFrame

NextStorage ==
  \/ CreateThread
  \/ DeleteThread
  \/ SwitchThread
  \/ SaveMessages
  \/ SaveThread
  \/ GetThreads
  \/ GetMessages
  \/ GetActiveThreadId

SpecStorage == InitStorage /\ [][NextStorage]_vars

(***************************************************************************)
(* Properties                                                              *)
(***************************************************************************)
WellFormed(h) ==
  \A i \in 1..Len(h) : h[i].ok /\ h[i].type \in {"human", "ai", "tool"}

ReadBackOfSameThread == hpc = "read" /\ readBack.thread = threadId

\* C1, as stated: hydrating a non-empty history of human/ai/tool messages and
\* reading the same thread back gives as many messages, the i-th with the role
\* and the text content of the i-th history item.
C1_TextRoundTripsExactly ==
  (ReadBackOfSameThread /\ history # <<>> /\ WellFormed(history)) =>
    /\ Len(readBack.messages) = Len(history)
    /\ \A i \in 1..Len(history) :
         /\ RoleOf(readBack.messages[i]) = history[i].type
         /\ ExtractText(readBack.messages[i].content) = ExtractText(history[i].content)

\* C1, amended: same length, same order, same roles; a plain-string content
\* reads back unchanged, a structured content reads back as the string that
\* is its JSON serialization.
C1_RoundTrip ==
  (ReadBackOfSameThread /\ history # <<>> /\ WellFormed(history)) =>
    /\ Len(readBack.messages) = Len(history)
    /\ \A i \in 1..Len(history) :
         /\ RoleOf(readBack.messages[i]) = history[i].type
         /\ readBack.messages[i].content.kind = "str"
         /\ readBack.messages[i].content.text =
              IF history[i].content.kind = "str" THEN history[i].content.text
              ELSE Stringify(history[i].content)

C1_Witness ==
  /\ ReadBackOfSameThread
  /\ Len(history) = 2 /\ WellFormed(history)
  /\ history[1].type = "human" /\ history[1].content.kind = "list"
  /\ history[2].type = "tool"
  /\ Len(readBack.messages) = 2

\* C2: the assistant message hydrated from an ai item with tool calls carries
\* the item's tool-call list, additional_kwargs and response_metadata unchanged.
C2_ToolCallsPreserved ==
  (ReadBackOfSameThread /\ ~MapThrows(history)) =>
    \A i \in 1..Len(history) :
      (history[i].type = "ai" /\ history[i].tool_calls # <<>>) =>
        /\ readBack.messages[i].cls = "AIMessage"
        /\ readBack.messages[i].tool_calls = history[i].tool_calls
        /\ readBack.messages[i].additional_kwargs = history[i].additional_kwargs
        /\ readBack.messages[i].response_metadata = history[i].response_metadata

C2_Witness ==
  /\ ReadBackOfSameThread
  /\ Len(history) = 2 /\ ~MapThrows(history)
  /\ history[2].type = "ai" /\ history[2].tool_calls = <<TC1, TC2>>
  /\ readBack.messages[2].tool_calls = <<TC1, TC2>>

\* a step of the agent node / of the tool_approval node
AgentStep == node = "agent" /\ aiCount' = aiCount + 1
GateStep == node = "tool_approval" /\ steps' = steps + 1

\* in a turn started by a user message: without approveAllTools no tool runs
\* and at most one interrupt is emitted, exactly one once the turn is
\* suspended; with approveAllTools no interrupt is emitted
C3_Counts ==
  (pc = "streaming" /\ inputs.kind = "state") =>
    /\ ~opts.approveAllTools =>
         /\ toolRuns = <<>>
         /\ Len(interrupts) <= 1
         /\ (node = "interrupted" => Len(interrupts) = 1 /\ HasToolCalls(Last(messages)))
    /\ opts.approveAllTools => interrupts = <<>> /\ node # "interrupted"

C3_GateEffect ==
  (GateStep /\ resume = NoResume /\ messages # <<>> /\ HasToolCalls(Last(messages))) =>
    IF opts.approveAllTools
    THEN node' = "tools" /\ interrupts' = interrupts /\ toolRuns' = toolRuns
    ELSE /\ node' = "interrupted"
         /\ Len(interrupts') = Len(interrupts) + 1
         /\ \E i \in 1..Len(Last(messages).tool_calls) :
              Last(interrupts').toolCall = Last(messages).tool_calls[i]
         /\ toolRuns' = toolRuns

\* C3, as stated: a tool call without approveAllTools halts at the gate
\* before any tool runs, with exactly one interrupt; with approveAllTools the
\* graph goes from agent directly to tools, without interrupt; without a tool
\* call it goes from agent to END.
C3_AgentGoesDirectlyToTools ==
  /\ []C3_Counts
  /\ [][/\ AgentStep =>
             IF ~HasToolCalls(Last(messages')) THEN node' = "END"
             ELSE IF opts.approveAllTools THEN node' = "tools"
             ELSE node' = "tool_approval"
        /\ C3_GateEffect]_vars

\* C3, amended: the edge leaving agent leads to tool_approval whenever the
\* model output holds a tool call, and to END otherwise; the gate interrupts
\* (exactly once, before any tool runs) without approveAllTools and passes
\* on to tools, with no interrupt, with approveAllTools.
C3_ApprovalGate ==
  /\ []C3_Counts
  /\ [][/\ AgentStep =>
             IF HasToolCalls(Last(messages')) THEN node' = "tool_approval"
             ELSE node' = "END"
        /\ C3_GateEffect]_vars

C3_Witness ==
  /\ pc = "streaming" /\ inputs.kind = "state" /\ opts.approveAllTools
  /\ Len(emitted) >= 3
  /\ emitted[1].node = "agent" /\ emitted[2].node = "tool_approval"
  /\ emitted[3].node = "tools"
  /\ toolRuns = <<TC1>> /\ interrupts = <<>>

\* C4, as stated: a turn resumed with allowTool=deny takes the feedback
\* branch: a denial tool result is recorded, the graph is back at agent, and
\* the pending tool is never executed.
C4_DenyTakesFeedbackBranch ==
  (pc = "streaming" /\ opts.allowTool = "deny") =>
    /\ inputs.resume.action = "feedback"
    /\ toolRuns = <<>>
    /\ (steps >= 1 /\ node \in Runnable) =>
         \E i \in 1..Len(messages) : messages[i].cls = "ToolMessage"

\* C5: with allowTool the turn input is a resume command, continue for allow
\* and update for deny, with a data field; without it the input is exactly
\* one human message carrying the user text.
C5_TurnInput ==
  (pc = "streaming") =>
    IF opts.allowTool # Undefined
    THEN /\ inputs.kind = "command"
         /\ inputs.resume.action = (IF opts.allowTool = "allow" THEN "continue" ELSE "update")
         /\ inputs.resume.data = EmptyData
         /\ inputs.messages = <<>>
    ELSE /\ inputs.kind = "state"
         /\ Len(inputs.messages) = 1
         /\ inputs.messages[1].cls = "HumanMessage"
         /\ inputs.messages[1].content = Str(userText)

C5_Witness ==
  /\ pc = "streaming" /\ opts.allowTool = "deny"
  /\ inputs.kind = "command" /\ inputs.resume.action = "update"
  /\ PendingApproval(history)

\* C6: at a gate that has interrupted (approveAllTools off), continue goes to
\* tools with the messages unmodified; update goes to tools with the
\* tool-call message replaced by one carrying the reviewer's arguments;
\* feedback goes to agent after appending a tool result for the reviewed
\* call, and runs no tool. The next node is tools or agent, never END.
C6_ResumeActions ==
  [][(GateStep /\ ~opts.approveAllTools /\ resume # NoResume) =>
       LET tc == Last(Last(messages).tool_calls)
           n == Len(messages)
       IN  /\ node' \in {"tools", "agent"}
           /\ toolRuns' = toolRuns
           /\ interrupts' = interrupts
           /\ resume.action = "continue" => node' = "tools" /\ messages' = messages
           /\ resume.action = "update" =>
                /\ node' = "tools"
                /\ Len(messages') = n
                /\ \A i \in 1..(n - 1) : messages'[i] = messages[i]
                /\ messages'[n].cls = "AIMessage"
                /\ messages'[n].id = messages[n].id
                /\ messages'[n].tool_calls = <<ToolCall(tc.id, tc.name, resume.data)>>
           /\ resume.action = "feedback" =>
                /\ node' = "agent"
                /\ Len(messages') = n + 1
                /\ \A i \in 1..n : messages'[i] = messages[i]
                /\ messages'[n + 1].cls = "ToolMessage"
                /\ messages'[n + 1].tool_call_id = tc.id]_vars

C6_Witness ==
  /\ inputs.kind = "command" /\ inputs.resume.action = "feedback"
  /\ ~opts.approveAllTools
  /\ steps = 1 /\ node = "agent"
  /\ Last(messages).cls = "ToolMessage" /\ Last(messages).tool_call_id = TC2.id
  /\ toolRuns = <<>>

\* the text of a message: a plain string, or its text blocks joined
RECURSIVE C8_Joined(_)
C8_Joined(items) ==
  IF items = <<>> THEN <<>>
  ELSE (IF Head(items).kind \in {"text", "string"} THEN Head(items).text ELSE <<>>)
       \o C8_Joined(Tail(items))

C8_Text(m) ==
  IF m.content.kind = "str" THEN m.content.text ELSE C8_Joined(m.content.items)

C8_EncodesToolCall(m) ==
  m.content.kind = "list" /\ "functionCall" \in {m.content.items[i].kind : i \in 1..Len(m.content.items)}

C8_Blank(t) == \A i \in 1..Len(t) : t[i] \in {" ", "\n"}

\* C8: for an assistant message of an agent update the generator yields one ai
\* delta with the message's tool calls, additional_kwargs and
\* response_metadata when the content encodes a tool call; otherwise one ai
\* delta whose content is the message's text, and nothing when that text is
\* empty or whitespace only.
C8_DeltaOfAssistantMessage ==
  [][(pc = "streaming" /\ taken' = taken + 1) =>
       LET c == emitted[taken + 1]
           new == SubSeq(deltas', Len(deltas) + 1, Len(deltas'))
       IN  (c.type = "updates" /\ c.node = "agent" /\ Len(c.messages) = 1
            /\ c.messages[1].cls \in {"AIMessage", "AIMessageChunk"}) =>
             LET m == c.messages[1]
             IN  /\ SubSeq(deltas', 1, Len(deltas)) = deltas
                 /\ IF C8_EncodesToolCall(m)
                    THEN /\ Len(new) = 1
                         /\ new[1].type = "ai"
                         /\ new[1].tool_calls = m.tool_calls
                         /\ new[1].additional_kwargs = m.additional_kwargs
                         /\ new[1].response_metadata = m.response_metadata
                    ELSE IF C8_Blank(C8_Text(m)) THEN new = <<>>
                    ELSE /\ Len(new) = 1
                         /\ new[1].type = "ai"
                         /\ new[1].content = Str(C8_Text(m))]_vars

C8_Witness ==
  /\ pc = "streaming" /\ taken = 2 /\ Len(emitted) = 2
  /\ emitted[1].messages = <<AIMessage(Str(<<" ", "\n">>), <<"r", 2>>, <<>>, Undefined, Undefined)>>
  /\ C8_EncodesToolCall(emitted[2].messages[1])
  /\ emitted[2].node = "agent"
  /\ Len(deltas) = 1
  /\ deltas[1].tool_calls = <<TC1, TC2>>

\* the assistant messages of the agent updates consumed so far, in order
RECURSIVE AssistantMessages(_)
AssistantMessages(chunks) ==
  IF chunks = <<>> THEN <<>>
  ELSE (IF Head(chunks).node = "agent"
        THEN SelectSeq(Head(chunks).messages, LAMBDA m : m.cls \in {"AIMessage", "AIMessageChunk"})
        ELSE <<>>)
       \o AssistantMessages(Tail(chunks))

C9_Position(produced, id) == CHOOSE i \in 1..Len(produced) : produced[i].id = id

\* C9: the deltas of a turn are a subsequence, in the same order, of the
\* assistant messages the graph produced: each delta comes from a message
\* already streamed, none is duplicated or reordered.
C9_DeltasInGraphOrder ==
  (pc = "streaming") =>
    LET produced == AssistantMessages(SubSeq(emitted, 1, taken))
    IN  /\ \A k \in 1..Len(deltas) :
             \E i \in 1..Len(produced) : produced[i].id = deltas[k].id
        /\ \A k, l \in 1..Len(deltas) :
             k < l => C9_Position(produced, deltas[k].id) < C9_Position(produced, deltas[l].id)

C9_Witness ==
  /\ pc = "streaming" /\ gen = "returned"
  /\ Len(deltas) = 2
  /\ deltas[1].tool_calls = <<TC1>> /\ deltas[2].content = Str(A)
  /\ Len(AssistantMessages(emitted)) = 2

\* C10: every turn ends: the graph reaches END, an interrupt or an error, and
\* the generator then finishes, whatever the model answers and whatever
\* approveAllTools is.
C10_TurnTerminates ==
  (pc = "called") ~> (pc = "streaming" /\ node \in Ended /\ gen \in {"returned", "threw"})

C10_Witness ==
  /\ pc = "streaming" /\ gen = "threw"
  /\ opts.approveAllTools
  /\ steps = RecursionLimit
  /\ Len(toolRuns) >= 1

Terminal(ev) == ev.event \in {"done", "error"}

\* the response so far: one data event per delta, in order, then at most one
\* terminal event, present exactly when the response is closed; done after a
\* finished or interrupted run, error with the raised message otherwise
C11_ResponseShape ==
  /\ Len(wire) = Len(deltas) + (IF closed THEN 1 ELSE 0)
  /\ \A i \in 1..Len(deltas) : wire[i].event = "message" /\ wire[i].data = deltas[i]
  /\ \A i \in 1..Len(wire) : Terminal(wire[i]) => (i = Len(wire) /\ closed)
  /\ closed =>
       /\ Terminal(Last(wire))
       /\ node \in {"END", "interrupted"} => Last(wire).event = "done"
       /\ node = "error" =>
            Last(wire).event = "error" /\ Last(wire).message = Str(ErrorText)
       /\ node \in Ended

C12_ReconcileDelta ==
  [][(pc = "streaming" /\ received' = received + 1
      /\ wire[received + 1].event = "message") =>
       LET d == wire[received + 1].data
       IN  IF current # NoCurrent /\ current.id = d.id
           THEN /\ Len(clientMsgs') = Len(clientMsgs)
                /\ current' = [current EXCEPT
                                 !.content = Str(current.content.text \o d.content.text)]
                /\ \E k \in 1..Len(clientMsgs) :
                     /\ clientMsgs[k].id = d.id
                     /\ clientMsgs'[k] = current'
                     /\ \A j \in 1..Len(clientMsgs) :
                          j # k => clientMsgs'[j] = clientMsgs[j]
           ELSE /\ clientMsgs' = Append(clientMsgs, d)
                /\ current' = d]_vars

C12_Witness ==
  /\ pc = "streaming" /\ received = 2
  /\ wire[1].data.id = <<"r", 1>> /\ wire[2].data.id = <<"r", 1>>
  /\ wire[1].data.content = Str(A) /\ wire[2].data.content = Str(B)
  /\ Len(clientMsgs) = Len(history) + 2
  /\ Last(clientMsgs).content = Str(A \o B)
  /\ current = Last(clientMsgs)

C16_OneWriteWheneverNonEmpty ==
  pc = "streaming" =>
    /\ Len(history) = 0 => saver = createMemorySaver
    /\ Len(history) > 0 => Writes(saver) = 1 /\ Len(saver[threadId]) = 1
    /\ Len(hydrateLog) <= 1

\* C16: once createAgent has run, the store is untouched when the history is
\* empty; otherwise it holds at most one checkpoint, under the request's
\* thread id only: exactly one, of the converted history, when every item
\* converts and the write succeeds, and none when an item fails to convert
\* or the write fails; the hydrator ran at most once.
C16_AtMostOneWrite ==
  pc = "streaming" =>
    /\ Len(history) = 0 => saver = createMemorySaver /\ hydrateLog = <<>>
    /\ Writes(saver) <= 1
    /\ \A t \in ThreadIds \ {threadId} : saver[t] = <<>>
    /\ Len(hydrateLog) <= 1
    /\ Len(history) > 0 => hydrateLog \in {<<"hydrated">>, <<"failed">>}
    /\ Len(history) > 0 /\ MapThrows(history) => hydrateLog = <<"failed">>
    /\ hydrateLog = <<"hydrated">> =>
         saver[threadId] = <<Checkpoint(MapSeq(messageResponseToBaseMessage, history))>>
    /\ hydrateLog = <<"failed">> => Writes(saver) = 0

C16_Witness ==
  /\ pc = "streaming" /\ threadId = "T2"
  /\ Len(history) = MaxHist /\ ~MapThrows(history)
  /\ hydrateLog = <<"hydrated">>
  /\ Len(saver["T2"]) = 1 /\ saver["T1"] = <<>>
  /\ Len(getHistory(saver, "T2")) = MaxHist

\* C17: a history with an item that does not convert, or a failed write,
\* is logged once as a failure and does not reject createAgent: the generator
\* is opened on a graph compiled with an empty store, and the turn starts
\* with nothing but its own input.
C17_FailureLogged ==
  (pc = "streaming" /\ MapThrows(history)) => hydrateLog = <<"failed">>

C17_HydrationFailureSwallowed ==
  /\ []C17_FailureLogged
  /\ [][(pc = "called" /\ pc' = "streaming" /\ hydrateLog' = <<"failed">>) =>
          /\ saver' = createMemorySaver
          /\ gen' = "open"
          /\ node' = (IF inputs'.kind = "state" THEN "agent" ELSE "resuming")
          /\ Len(messages') = Len(inputs'.messages)
          /\ Len(hydrateLog') = 1]_vars

C17_Witness ==
  /\ MapThrows(history) /\ hydrateLog = <<"failed">>
  /\ saver = createMemorySaver
  /\ closed /\ node = "END" /\ aiCount >= 1 /\ Len(wire) >= 2
  /\ Last(wire).event = "done"

\* what a request's own history puts in a new store
C18_OwnHistory(h) ==
  IF Len(h) > 0 /\ ~MapThrows(h) THEN MapSeq(messageResponseToBaseMessage, h) ELSE <<>>

C19_Max(t) ==
  CASE t \in {"image/png", "image/jpeg", "image/jpg"} -> 5 * 1024 * 1024
    [] t = "application/pdf" -> 10 * 1024 * 1024
    [] OTHER -> 2 * 1024 * 1024

C19_Listed ==
  {"image/png", "image/jpeg", "image/jpg", "application/pdf", "text/markdown",
   "text/plain", "application/octet-stream"}

\* C19 as stated: for each of the seven types a file of exactly the maximum
\* size is accepted and a file one byte larger gets a size error.
C19_BoundaryForEveryType ==
  (verdict # NoVerdict /\ file.type \in C19_Listed) =>
    /\ file.size = C19_Max(file.type) => verdict = Valid
    /\ file.size = C19_Max(file.type) + 1 => verdict = ValidationError("size")

\* C19: for each of the six types of the allow-list, and for
\* application/octet-stream when the name's lower-cased extension is md,
\* markdown or txt, a file of exactly the maximum size is accepted and a
\* file one byte larger gets a size error.
C19_Boundary ==
  (/\ verdict # NoVerdict /\ file.type \in C19_Listed
   /\ file.type = "application/octet-stream" =>
        toLowerCase(Last(file.name)) \in {"md", "markdown", "txt"}) =>
    /\ file.size = C19_Max(file.type) => verdict = Valid
    /\ file.size = C19_Max(file.type) + 1 => verdict = ValidationError("size")

C19_Witness ==
  /\ file.type = "application/octet-stream" /\ file.name = <<"notes", "TXT">>
  /\ file.size = 2 * 1024 * 1024 + 1
  /\ verdict = ValidationError("size")

\* C20: an application/octet-stream file is accepted exactly when its
\* lower-cased extension is md, markdown or txt and its size is at most 2MB;
\* a wrong extension gives a type error whatever the size, an allowed
\* extension over 2MB a size error; any type that is neither in the
\* allow-list nor application/octet-stream gives a type error.
C20_OctetStreamAndAllowList ==
  verdict # NoVerdict =>
    LET extOk == toLowerCase(Last(file.name)) \in {"md", "markdown", "txt"}
    IN  /\ file.type = "application/octet-stream" =>
             /\ verdict = Valid <=> (extOk /\ file.size <= 2 * 1024 * 1024)
             /\ ~extOk => verdict = ValidationError("type")
             /\ (extOk /\ file.size > 2 * 1024 * 1024) => verdict = ValidationError("size")
        /\ file.type \notin C19_Listed => verdict = ValidationError("type")

\* C21: once the endpoint has answered: a request without a file, or with a
\* file that validation rejects, got status 400 with the error's field and
\* nothing was stored; a request whose upload call failed got status 500
\* with a field; a success answer carries the stored object's key and the
\* file's name, type and size, and the object is in the store; the upload
\* call was made at most once.
C21_UploadAnswers ==
  response # NoResponse =>
    /\ file = NoFile =>
         response = ErrorResponse(400, "file") /\ bucket = <<>> /\ putCalls = 0
    /\ (file \notin {NoFile, BadBody} /\ validateFile(file) # Valid) =>
         /\ response = ErrorResponse(400, validateFile(file).field)
         /\ bucket = <<>> /\ putCalls = 0
    /\ (putCalls = 1 /\ bucket = <<>>) => response = ErrorResponse(500, "server")
    /\ response.success =>
         /\ response.status = 200 /\ putCalls = 1
         /\ Len(bucket) = 1 /\ bucket[1].key = response.key
         /\ bucket[1].type = file.type /\ bucket[1].size = file.size
         /\ response.name = file.name /\ response.type = file.type
         /\ response.size = file.size
    /\ response.status = 200 <=> response.success
    /\ response.status \in {200, 400, 500}
    /\ putCalls <= 1 /\ Len(bucket) <= putCalls

C21_Witness ==
  /\ file.type = "application/pdf" /\ file.size = 10 * 1024 * 1024
  /\ putCalls = 1 /\ bucket = <<>>
  /\ response = ErrorResponse(500, "server")

\* C22: every entry of the server set returned by getMCPServerConfigs has
\* the name and transport of a configured server whose enabled flag is
\* true; a name configured only with enabled false or without the flag is
\* not in the set.
C22_OnlyEnabledServers ==
  mcpOut.built =>
    /\ \A i \in 1..Len(mcpOut.configs) :
         \E j \in 1..Len(configFile.servers) :
           /\ configFile.servers[j].name = mcpOut.configs[i].name
           /\ configFile.servers[j].type = mcpOut.configs[i].transport
           /\ configFile.servers[j].enabled = "true"
    /\ \A j \in 1..Len(configFile.servers) :
         (\A k \in 1..Len(configFile.servers) :
            configFile.servers[k].name = configFile.servers[j].name
              => configFile.servers[k].enabled # "true")
           => \A i \in 1..Len(mcpOut.configs) :
                mcpOut.configs[i].name # configFile.servers[j].name

C22_Witness ==
  /\ mcpOut.built /\ Len(configFile.servers) = 2
  /\ configFile.servers[1].enabled = "missing" /\ configFile.servers[1].name = "fs"
  /\ configFile.servers[1].type = "stdio" /\ configFile.servers[1].target
  /\ configFile.servers[2].enabled = "true" /\ configFile.servers[2].name = "web"
  /\ Len(mcpOut.configs) = 1 /\ mcpOut.configs[1].name = "web"

\* C23: the tool registry never rejects and the agent is always built; when
\* the file is missing, unparsable or without a servers array, or the client
\* cannot be created or queried, the registry returns no tool and the agent
\* holds exactly the statically configured tools.
C23_RegistryNeverFails ==
  mcpOut # NoMcpOut =>
    /\ ~mcpOut.threw /\ mcpOut.built
    /\ (configFile.shape # "ok" \/ mcpOut.failure # "none") =>
         mcpOut.tools = <<>> /\ mcpOut.agentTools = configFile.cfgTools
    /\ mcpOut.agentTools = configFile.cfgTools \o mcpOut.tools

C23_Witness ==
  /\ mcpOut.built /\ mcpOut.failure = "query" /\ Len(mcpOut.configs) = 2
  /\ mcpOut.tools = <<>> /\ mcpOut.agentTools = <<"calc">>

\* C24: a read never raises: getThreads and getMessages give an empty list
\* when the key is absent or holds text that does not parse, and
\* getActiveThreadId gives null when the key is absent; saveThread,
\* saveMessages and deleteThread do not raise, whether their write failed
\* or not.
C24_StorageNeverRaises ==
  /\ lastRead.op = "getThreads" =>
       /\ ~lastRead.raised
       /\ ls.threads.state \in {"absent", "corrupt"} => Len(lastRead.list) = 0
  /\ lastRead.op = "getMessages" =>
       /\ ~lastRead.raised
       /\ ls.msgs[lastRead.id].state \in {"absent", "corrupt"} => Len(lastRead.list) = 0
       /\ ls.msgs[lastRead.id].state = "ok" => lastRead.list = ls.msgs[lastRead.id].list
  /\ lastRead.op = "getActiveThreadId" =>
       ~lastRead.raised /\ lastRead.id = ls.active
  /\ lastRead.op \in {"saveThread", "saveMessages", "deleteThread"} => ~lastRead.raised

C24_Witness ==
  /\ lastRead.op = "getMessages" /\ lastRead.id = 1
  /\ ls.msgs[1] = Corrupt /\ ls.threads.state = "ok"
  /\ Len(lastRead.list) = 0 /\ ~lastRead.raised
  /\ clock >= 1

\* what C25 promises of a deleteThread(t) step
C25_Deleted(t) ==
  /\ t \notin IdsOf(getThreads(ls'))
  /\ getThread(ls', t) = NoThread
  /\ getMessages(ls', t) = <<>> /\ ls'.msgs[t] = Absent
  /\ SelectSeq(getThreads(ls), LAMBDA th : th.id # t) = getThreads(ls')
  /\ \A u \in ThreadIdsOfStore \ {t} :
       getThread(ls', u) = getThread(ls, u) /\ ls'.msgs[u] = ls.msgs[u]

\* C25 as stated: after every deleteThread(t) the list has no thread t, the
\* message record of t is gone, and every other thread and record is as it
\* was.
C25_DeleteAlwaysRemoves ==
  [][lastRead'.op = "deleteThread" => C25_Deleted(lastRead'.id)]_vars

\* C25: after a deleteThread(t) whose write of the thread list succeeds, the
\* list has no thread t, the message record of t is gone, and every other
\* thread and record is as it was; when that write fails, the thread list
\* and every message record, t's included, are left as they were.
C25_DeleteRemovesOrLeaves ==
  [][lastRead'.op = "deleteThread" =>
       \/ C25_Deleted(lastRead'.id)
       \/ ls'.threads = ls.threads /\ ls'.msgs = ls.msgs]_vars

C25_Witness ==
  /\ lastRead.op = "deleteThread" /\ lastRead.id = 1 /\ minted = {1, 2}
  /\ getThread(ls, 1) = NoThread /\ ls.msgs[1] = Absent
  /\ getThread(ls, 2) # NoThread /\ ls.msgs[2] = Item(<<"m1", "m2">>)

\* C26: every message record in the store belongs to a thread of the stored
\* thread list.
C26_NoOrphanedRecord ==
  \A t \in ThreadIdsOfStore :
    ls.msgs[t].state # "absent" => t \in IdsOf(getThreads(ls))

C27_IdSeq(threads) == [i \in 1..Len(threads) |-> threads[i].id]

C27_OneEntryPerId ==
  \A i, j \in 1..Len(getThreads(ls)) :
    getThreads(ls)[i].id = getThreads(ls)[j].id => i = j

\* the effect of a saveThread of id t whose write succeeded
C27_Saved(t) ==
  IF t \in IdsOf(getThreads(ls))
  THEN /\ C27_IdSeq(getThreads(ls')) = C27_IdSeq(getThreads(ls))
       /\ \A i \in 1..Len(getThreads(ls)) :
            IF getThreads(ls)[i].id = t
            THEN /\ getThreads(ls')[i].updatedAt = clock'
                 /\ getThreads(ls')[i].updatedAt > getThreads(ls)[i].updatedAt
            ELSE getThreads(ls')[i] = getThreads(ls)[i]
  ELSE /\ Len(getThreads(ls')) = Len(getThreads(ls)) + 1
       /\ getThreads(ls')[1].id = t /\ getThreads(ls')[1].updatedAt = clock'
       /\ SubSeq(getThreads(ls'), 2, Len(getThreads(ls'))) = getThreads(ls)

\* what a saveMessages of thread t may change
C27_SaveMessagesFrame(t) ==
  /\ C27_IdSeq(getThreads(ls')) = C27_IdSeq(getThreads(ls))
  /\ \A i \in 1..Len(getThreads(ls)) :
       IF getThreads(ls)[i].id = t
       THEN getThreads(ls')[i].title = getThreads(ls)[i].title
       ELSE getThreads(ls')[i] = getThreads(ls)[i]
  /\ \A u \in ThreadIdsOfStore \ {t} : ls'.msgs[u] = ls.msgs[u]
  /\ ls'.active = ls.active

\* C27 as stated: the list never holds two entries of one id; every
\* saveThread replaces the entry of a present id in place, refreshing
\* updatedAt, or puts a new id at the front; saveMessages on a present
\* thread changes only that thread's updatedAt and message record.
C27_SaveThreadAlwaysWrites ==
  /\ []C27_OneEntryPerId
  /\ [][/\ lastRead'.op \in {"saveThread", "createThread"} => C27_Saved(lastRead'.id)
        /\ (lastRead'.op = "saveMessages" /\ lastRead'.id \in IdsOf(getThreads(ls)))
             => C27_SaveMessagesFrame(lastRead'.id)]_vars

\* C27: the list never holds two entries of one id; a saveThread whose write
\* succeeds replaces the entry of a present id in place, refreshing
\* updatedAt, or puts a new id at the front, and one whose write fails
\* leaves the list as it was; saveMessages on a present thread changes only
\* that thread's updatedAt and message record.
C27_ThreadListShape ==
  /\ []C27_OneEntryPerId
  /\ [][/\ lastRead'.op \in {"saveThread", "createThread"} =>
             C27_Saved(lastRead'.id) \/ ls'.threads = ls.threads
        /\ (lastRead'.op = "saveMessages" /\ lastRead'.id \in IdsOf(getThreads(ls)))
             => C27_SaveMessagesFrame(lastRead'.id)]_vars

C27_Witness ==
  /\ lastRead.op = "saveThread" /\ lastRead.id = 1
  /\ C27_IdSeq(getThreads(ls)) = <<2, 1>>
  /\ getThreads(ls)[2] = Thread(1, "renamed", clock)
  /\ getThreads(ls)[1].updatedAt < clock

\* C28: what one iteration of the generator adds to the deltas: every new
\* delta has type ai and is the delta of an AIMessage or AIMessageChunk in
\* the messages of an update of the agent node; a chunk of another node, an
\* interrupt chunk, a chunk of another stream mode, and a human or tool
\* message add nothing.
C28_OnlyAgentAssistantMessages ==
  [][(gen = "open" /\ taken' = taken + 1) =>
       LET chunk == emitted[taken + 1]
           new == SubSeq(deltas', Len(deltas) + 1, Len(deltas'))
       IN  /\ Len(deltas') >= Len(deltas)
           /\ SubSeq(deltas', 1, Len(deltas)) = deltas
           /\ \A k \in 1..Len(new) :
                /\ new[k].type = "ai"
                /\ chunk.type = "updates" /\ chunk.node = "agent"
                /\ \E j \in 1..Len(chunk.messages) :
                     /\ chunk.messages[j].cls \in {"AIMessage", "AIMessageChunk"}
                     /\ processAIMessage(chunk.messages[j]) = <<new[k]>>
           /\ (chunk.type # "updates" \/ chunk.node # "agent") => new = <<>>
           /\ (\A j \in 1..Len(chunk.messages) :
                 chunk.messages[j].cls \in {"HumanMessage", "ToolMessage"}) => new = <<>>]_vars

C28_Witness ==
  /\ taken = 2 /\ Len(emitted) = 2
  /\ emitted[1].node = "tool_approval" /\ emitted[1].messages[1].cls = "AIMessage"
  /\ emitted[2].node = "agent" /\ emitted[2].messages[1].cls = "AIMessageChunk"
  /\ Len(deltas) = 1 /\ deltas[1].type = "ai" /\ deltas[1].id = emitted[2].messages[1].id

\* C29: once the hydrator has run on a history whose items all carry a data
\* object, the checkpoint of the thread holds one message per history item,
\* in order, each the conversion of its item; an item whose type is none of
\* human, ai, tool (an error item) is stored as a HumanMessage with the
\* item's id and its normalised content, so it reads back with the role of
\* a user turn.  An empty history, or one with an item without data, stores
\* no checkpoint.
C29_EveryItemConverted ==
  hpc # "start" =>
    IF Len(history) = 0 \/ MapThrows(history)
    THEN saver[threadId] = <<>>
    ELSE LET msgs == getHistory(saver, threadId)
         IN  /\ Len(saver[threadId]) = 1
             /\ Len(msgs) = Len(history)
             /\ saver[threadId][1].channel_versions.messages = Len(history)
             /\ \A i \in 1..Len(history) :
                  /\ msgs[i] = messageResponseToBaseMessage(history[i])
                  /\ history[i].type \notin {"human", "ai", "tool"} =>
                       /\ msgs[i].cls = "HumanMessage"
                       /\ RoleOf(msgs[i]) = "human"
                       /\ msgs[i].id = history[i].id
                       /\ msgs[i].content = normalizeContent(history[i].content)
                       /\ history[i].content.kind = "str" =>
                            msgs[i].content = history[i].content

C29_Witness ==
  /\ hpc = "hydrated"
  /\ Len(history) = 2
  /\ history[1].type = "error" /\ history[2].type = "ai"
  /\ Len(getHistory(saver, threadId)) = 2
  /\ getHistory(saver, threadId)[1].cls = "HumanMessage"
  /\ getHistory(saver, threadId)[1].id = <<"e", 1>>
  /\ getHistory(saver, threadId)[1].content = Str(A)

\* C30: at every point of a sequence of createThread, switchThread and
\* deleteThread the in-memory active thread id equals the stored
\* active-thread pointer (Null when the record is absent); right after
\* createThread both name the new thread; right after deleteThread of the
\* active thread both are Null.
C30_ActiveMatchesPointer ==
  /\ activeId = getActiveThreadId(ls)
  /\ lastRead.op = "createThread" => ls.active = lastRead.id
  /\ (lastRead.op = "deleteThread" /\ activeId = Null) => ls.active = Null

====
